---- MODULE Spec2Model ----
(***************************************************************************)
(* Signature verification backend: signatureService.verifySignature, the   *)
(* signatureController.verifySignature handler, the express.json body      *)
(* parser in front of it and the generic errorHandler behind it.           *)
(*                                                                         *)
(* JavaScript values are records [t |-> <typeof>, v |-> <text>].  The      *)
(* signature scheme of ethers (secp256k1 ECDSA with public-key recovery)   *)
(* is computed in a group of small prime order: a point is a non-zero      *)
(* residue k (= k*G), its x-coordinate is min(k, n-k), its y-parity tells  *)
(* k from n-k.  A 65-byte signature r || s || v is written with one byte   *)
(* per component, a 64-byte compact signature with two bytes.              *)
(***************************************************************************)
EXTENDS Integers, Sequences, FiniteSets, TLC

VARIABLES
    svcRequest,     \* argument of the last direct call of verifySignature
    svcOutcome,     \* completion of that call: returned value or thrown error
    svcPrev,        \* an earlier direct call, kept for comparison: request and completion
    svcCalls,       \* number of direct calls made so far
    pc,             \* position of the HTTP request in the middleware chain
    req,            \* the HTTP request: raw body kind, parsed body, path, method
    res,            \* the HTTP response: status set, bodies sent
    verifierCalls,  \* arguments of the calls of signatureService.verifySignature
    verifierResult, \* completion of the verifier the handler awaits
    nextCalls,      \* arguments of the handler's calls of next
    pendingError,   \* the error on its way to the error-handling middleware
    prevAnswer,     \* error and response body of the last request errorHandler answered
    inflight,       \* the HTTP requests the server handles at the same time, one per slot
    valFn,          \* the validator of signatureService called last, "none" before a call
    valShape,       \* how the argument of that call is put together
    valInput,       \* the argument: a string, as the sequence of its characters
    valResult,      \* what the validator returned
    localStorage,   \* the value stored under the key 'signedMessages', Null when absent
    hooks,          \* the instances of useSignatureHistory: mounted, messages, isLoading
    lastOp,         \* the last operation on the history: which, on which instance, how
    loadingWrite,   \* a persist effect that ran with isLoading true changed localStorage
    page,           \* the state of SignPage: message, signature, isSigning, ...
    signRequest,    \* the signMessage call SignPage awaits: the text to sign
    verifyRequest,  \* the fetch SignPage awaits: body sent, values the handler closed over
    formReset,      \* Reset was the user's last action on the form of SignPage
    dynamic,        \* what useDynamicContext() returns: is there a user, a primary wallet
    wallet,         \* the state of WalletProvider: connectionState, error, modal, step
    authModal,      \* the state of EmailAuthModal: isLoading
    walletCalls,    \* the SDK calls WalletProvider awaits, counted per kind
    walletOp,       \* the last step of WalletProvider and the error it caught
    codeSent,       \* connectWithEmail has resolved since the step was last reset
    mfaSdk,         \* what useMFA reads from the SDK: isLogged, userWithMissingInfo
    mfa,            \* the state of useMFA: devices, mfaRegisterData, currentView, ...
    mfaRefs,        \* the refs of useMFA: handlingMfaFlow, mfaFlowHandled, ...
    mfaCalls,       \* the SDK calls the functions of useMFA await
    mfaTimers,      \* the timeouts of closeModal that have not fired yet
    mfaOp,          \* the kind of the last step of useMFA
    mfaCleared,     \* the logout effect cleared the state and nothing was called since
    autoOpened      \* the modal was opened automatically; no verifyDevice succeeded
                    \* and no logout happened since

svcVars == <<svcRequest, svcOutcome, svcPrev, svcCalls>>
httpVars == <<pc, req, res, verifierCalls, verifierResult, nextCalls, pendingError,
             prevAnswer>>
concVars == <<inflight>>
\* what the single-request backend actions leave alone
valVars == <<valFn, valShape, valInput, valResult>>
histVars == <<localStorage, hooks, lastOp, loadingWrite>>
pageVars == <<page, signRequest, verifyRequest, formReset>>
walletVars == <<dynamic, wallet, authModal, walletCalls, walletOp, codeSent>>
mfaVars == <<mfaSdk, mfa, mfaRefs, mfaCalls, mfaTimers, mfaOp, mfaCleared, autoOpened>>
uiVars == <<walletVars, mfaVars>>
restVars == <<concVars, valVars, histVars, pageVars, uiVars>>
vars == <<svcRequest, svcOutcome, svcPrev, svcCalls, pc, req, res, verifierCalls, verifierResult,
          nextCalls, pendingError, prevAnswer, inflight, valFn, valShape, valInput,
          valResult, localStorage, hooks, lastOp, loadingWrite, page, signRequest, verifyRequest,
          formReset, dynamic, wallet, authModal, walletCalls, walletOp, codeSent, mfaSdk, mfa,
          mfaRefs, mfaCalls, mfaTimers, mfaOp, mfaCleared, autoOpened>>

----------------------------------------------------------------------------
(* Bounds *)

MaxWallets == 3
MaxCalls == 3
MaxInFlight == 2
MaxHistory == 2
MaxPageEntries == 1
MaxWalletCalls == 1
MaxMfaCalls == 1

(* Constants of the program *)

\* the cap of isValidMessage
MaxMessageLength == 10000
\* the number of hexadecimal characters isValidSignatureFormat asks for
SignatureHexLength == 130

----------------------------------------------------------------------------
(* JavaScript values *)

Undefined == [t |-> "undefined", v |-> ""]
Null == [t |-> "null", v |-> ""]
Str(s) == [t |-> "string", v |-> s]
Num(s) == [t |-> "number", v |-> s]
Bool(s) == [t |-> "boolean", v |-> s]

\* ToBoolean: undefined, null, '', 0 and false are falsy
Truthy(x) ==
    CASE x.t = "undefined" -> FALSE
      [] x.t = "null" -> FALSE
      [] x.t = "string" -> x.v # ""
      [] x.t = "number" -> x.v # "0"
      [] x.t = "boolean" -> x.v = "true"
      [] OTHER -> TRUE

Return(val) == [kind |-> "return", value |-> val]
Throw(err) == [kind |-> "throw", value |-> err]
NoOutcome == [kind |-> "none", value |-> Undefined]

Err(name, message, status) == [name |-> name, message |-> message, status |-> status]

----------------------------------------------------------------------------
(* ethers: hashing, signing and recovery *)

GroupOrder == 11

HalfOrder == (GroupOrder - 1) \div 2

HexDigit == <<"0", "1", "2", "3", "4", "5", "6", "7",
              "8", "9", "a", "b", "c", "d", "e", "f">>

\* hexlify of one byte
Hex2(b) == HexDigit[(b \div 16) + 1] \o HexDigit[(b % 16) + 1]

\* String.prototype.repeat
RECURSIVE Repeat(_, _)
Repeat(str, count) ==
    IF count = 0 THEN ""
    ELSE IF count % 2 = 0
    THEN LET half == Repeat(str, count \div 2) IN half \o half
    ELSE str \o Repeat(str, count - 1)

\* the shortest message past the cap of isValidMessage
LongMessage == Repeat("A", MaxMessageLength + 1)

Messages == <<"", "Hello, Web3!", "Original message", "Different message", LongMessage>>

MessageIndex(m) == CHOOSE i \in 1..Len(Messages) : Messages[i] = m

\* ethers.hashMessage: the digest of the prefixed message, reduced to a scalar;
\* distinct messages have distinct digests
hashMessage(message) ==
    IF message.t = "string"
    THEN Return((5 * MessageIndex(message.v) + 2) % GroupOrder)
    ELSE Throw(Err("TypeError", "invalid BytesLike value", 0))

ModInverse(a) == CHOOSE x \in 1..(GroupOrder - 1) : (a * x) % GroupOrder = 1

XCoordinate(point) == IF point <= HalfOrder THEN point ELSE GroupOrder - point
YParity(point) == IF point <= HalfOrder THEN 0 ELSE 1
LiftX(x, parity) == IF parity = 0 THEN x ELSE GroupOrder - x

\* computeAddress: the address of a public key
computeAddress(publicKey) == "0x" \o Hex2(publicKey)

PrivateKeys == 1..MaxWallets

\* wallet.address: the public key of private key d is d*G
WalletAddress(d) == computeAddress(d)

\* serialized forms of a signature
Serialized65(r, s, v) == "0x" \o Hex2(r) \o Hex2(s) \o Hex2(v)
Serialized64(r, yParityAndS) == "0x" \o Hex2(r) \o Hex2(yParityAndS)

\* the deterministic nonce of a signature: the first candidate, counted from a
\* value derived from key and digest, whose signature has s # 0
NonceOk(d, z, k) == (z + XCoordinate(k) * d) % GroupOrder # 0
NonceCandidate(d, z, i) == 1 + ((7 * d + 3 * z + i) % (GroupOrder - 1))
Nonce(d, z) ==
    LET i == CHOOSE j \in 0..(GroupOrder - 2) :
                 /\ NonceOk(d, z, NonceCandidate(d, z, j))
                 /\ \A h \in 0..(j - 1) : ~NonceOk(d, z, NonceCandidate(d, z, h))
    IN  NonceCandidate(d, z, i)

\* wallet.signMessage: sign the digest of message with private key d; s is
\* normalised to the lower half, which flips the parity
signMessage(d, m) ==
    LET z == hashMessage(Str(m)).value
        k == Nonce(d, z)
        r == XCoordinate(k)
        s == (ModInverse(k) * (z + r * d)) % GroupOrder
        lowS == IF s > HalfOrder THEN GroupOrder - s ELSE s
        parity == IF s > HalfOrder THEN 1 - YParity(k) ELSE YParity(k)
    IN  Serialized65(r, lowS, 27 + parity)

\* the byte values signatures are decoded over
RBytes == 0..(GroupOrder + 1)
SBytes == 0..(GroupOrder + 1) \cup {128 + 3}
VBytes == {0, 1, 2, 27, 28, 29, 35, 36}
CompactBytes == 0..(GroupOrder + 1) \cup {128 + s : s \in 0..(GroupOrder + 1)}

\* Signature.getNormalizedV
NormalizedV(v) ==
    IF v = 0 \/ v = 27 THEN Return(27)
    ELSE IF v = 1 \/ v = 28 THEN Return(28)
    ELSE IF v >= 35 THEN Return(IF v % 2 = 1 THEN 27 ELSE 28)
    ELSE Throw(Err("TypeError", "invalid v", 0))

\* the 65-byte and the 64-byte strings, with the bytes they hold
Bytes65 ==
    [sig \in {Serialized65(c[1], c[2], c[3]) : c \in RBytes \X SBytes \X VBytes} |->
        CHOOSE c \in RBytes \X SBytes \X VBytes : sig = Serialized65(c[1], c[2], c[3])]
Bytes64 ==
    [sig \in {Serialized64(c[1], c[2]) : c \in RBytes \X CompactBytes} |->
        CHOOSE c \in RBytes \X CompactBytes : sig = Serialized64(c[1], c[2])]

\* Signature.from: parse a signature into (r, s, v)
SignatureFrom(signature) ==
    IF signature.t # "string"
    THEN Throw(Err("TypeError", "invalid signature", 0))
    ELSE IF signature.v \in DOMAIN Bytes65
    THEN LET c == Bytes65[signature.v]
             nv == NormalizedV(c[3])
         IN  IF c[2] >= 128
             THEN Throw(Err("TypeError", "non-canonical s", 0))
             ELSE IF nv.kind = "throw" THEN nv
             ELSE Return([r |-> c[1], s |-> c[2], v |-> nv.value])
    ELSE IF signature.v \in DOMAIN Bytes64
    THEN LET c == Bytes64[signature.v]
         IN  Return([r |-> c[1], s |-> c[2] % 128,
                     v |-> IF c[2] >= 128 THEN 28 ELSE 27])
    ELSE Throw(Err("TypeError", "invalid raw signature length", 0))

\* SigningKey.recoverPublicKey
recoverPublicKey(z, sig) ==
    IF ~(0 < sig.r /\ sig.r < GroupOrder /\ 0 < sig.s /\ sig.s < GroupOrder)
    THEN Throw(Err("Error", "invalid signature", 0))
    ELSE IF sig.r > HalfOrder
    THEN Throw(Err("Error", "Point is not on curve", 0))
    ELSE LET R == LiftX(sig.r, sig.v - 27)
             ir == ModInverse(sig.r)
             u1 == (GroupOrder - ((z * ir) % GroupOrder)) % GroupOrder
             u2 == (sig.s * ir) % GroupOrder
             Q == (u1 + u2 * R) % GroupOrder
         IN  IF Q = 0
             THEN Throw(Err("Error", "point at infinity", 0))
             ELSE Return(Q)

\* ethers.verifyMessage: the address that signed message, or a throw
verifyMessage(message, signature) ==
    LET digest == hashMessage(message)
        sig == SignatureFrom(signature)
    IN  IF digest.kind = "throw" THEN digest
        ELSE IF sig.kind = "throw" THEN sig
        ELSE LET Q == recoverPublicKey(digest.value, sig.value)
             IN  IF Q.kind = "throw" THEN Q
                 ELSE Return(computeAddress(Q.value))

----------------------------------------------------------------------------
(* signatureService *)

VerificationResponse(isValid, signer, originalMessage) ==
    [isValid |-> isValid, signer |-> signer, originalMessage |-> originalMessage]

\* the catch block of verifySignature
VerifyCatch(request) ==
    Return(VerificationResponse(FALSE, "", request.message))

\* Mutant: isValid compares the recovered address with the message hash
VerifyTryHashCompare(request) ==
    LET recoveredAddress == verifyMessage(request.message, request.signature)
    IN  IF recoveredAddress.kind = "throw" THEN recoveredAddress
        ELSE Return(VerificationResponse(FALSE, recoveredAddress.value,
                                         request.message))

\* Mutant: an empty message is refused before recovery
VerifyTryRefuseEmpty(request) ==
    LET recoveredAddress == verifyMessage(request.message, request.signature)
    IN  IF ~Truthy(request.message)
        THEN Throw(Err("Error", "empty message", 0))
        ELSE IF recoveredAddress.kind = "throw" THEN recoveredAddress
        ELSE Return(VerificationResponse(TRUE, recoveredAddress.value,
                                         request.message))

\* the try block of verifySignature
VerifyTry(request) ==
    LET messageHash == hashMessage(request.message)
        recoveredAddress == verifyMessage(request.message, request.signature)
        again == verifyMessage(request.message, request.signature)
    IN  IF messageHash.kind = "throw" THEN messageHash
        ELSE IF recoveredAddress.kind = "throw" THEN recoveredAddress
        ELSE IF again.kind = "throw" THEN again
        ELSE Return(VerificationResponse(again.value = recoveredAddress.value,
                                         recoveredAddress.value,
                                         request.message))

\* Mutant: no catch block, a failed recovery rejects
verifySignatureNoCatch(request) == VerifyTry(request)

\* Mutant: the scheme is chosen by the type tag; a tag that is not a MessageType
\* has no scheme and fails
verifySignatureByType(request) ==
    LET attempt == VerifyTry(request)
    IN  IF request.type \notin {Undefined, Str("simple"), Str("eip712"),
                                Str("personal_sign")}
        THEN VerifyCatch(request)
        ELSE IF attempt.kind = "throw" THEN VerifyCatch(request) ELSE attempt

\* signatureService.verifySignature
verifySignature(request) ==
    LET attempt == VerifyTry(request)
    IN  IF attempt.kind = "throw" THEN VerifyCatch(request) ELSE attempt

----------------------------------------------------------------------------
(* Direct calls of the service *)

MalformedSignatures == {"", "not-a-signature", "0x123", "0xinvalidhexstring"}

ServiceMessages == {Messages[i] : i \in 1..Len(Messages)}

ServiceSignatures ==
    MalformedSignatures
    \cup {Serialized65(r, s, v) : r \in RBytes, s \in SBytes, v \in VBytes}
    \cup {Serialized64(r, ys) : r \in RBytes, ys \in CompactBytes}
    \cup {signMessage(d, m) : d \in PrivateKeys, m \in ServiceMessages}

NoRequest == [message |-> Undefined, signature |-> Undefined, type |-> Undefined]

\* a caller awaits signatureService.verifySignature({message, signature})
ServiceVerify(m, s) ==
    /\ svcOutcome.kind = "none"
    /\ svcRequest' = [message |-> Str(m), signature |-> Str(s), type |-> Undefined]
    /\ svcOutcome' = verifySignature(svcRequest')
    /\ UNCHANGED <<svcPrev, svcCalls, httpVars, restVars>>

\* the caller has consumed the result
ServiceReturn ==
    /\ svcOutcome.kind # "none"
    /\ svcRequest' = NoRequest
    /\ svcOutcome' = NoOutcome
    /\ UNCHANGED <<svcPrev, svcCalls, httpVars, restVars>>

\* the arguments of repeated calls
RepeatedSignatures ==
    MalformedSignatures
    \cup {Serialized65(0, 0, 0)}
    \cup {signMessage(d, m) : d \in PrivateKeys, m \in ServiceMessages}

NoCall == [request |-> NoRequest, outcome |-> NoOutcome]

\* Mutant: a pre-check with a stateful (global) regular expression, which fails
\* on every second call
CallVerifyStateful(m, s) ==
    /\ svcOutcome.kind = "none"
    /\ svcCalls < MaxCalls
    /\ svcCalls' = svcCalls + 1
    /\ svcRequest' = [message |-> Str(m), signature |-> Str(s), type |-> Undefined]
    /\ svcOutcome' = IF svcCalls % 2 = 1
                     THEN VerifyCatch(svcRequest')
                     ELSE verifySignature(svcRequest')
    /\ UNCHANGED <<svcPrev, httpVars, restVars>>

\* one of a series of calls of signatureService.verifySignature
CallVerify(m, s) ==
    /\ svcOutcome.kind = "none"
    /\ svcCalls < MaxCalls
    /\ svcCalls' = svcCalls + 1
    /\ svcRequest' = [message |-> Str(m), signature |-> Str(s), type |-> Undefined]
    /\ svcOutcome' = verifySignature(svcRequest')
    /\ UNCHANGED <<svcPrev, httpVars, restVars>>

\* the caller has the result; it may keep it to compare with a later one
CallReturn(keep) ==
    /\ svcOutcome.kind # "none"
    /\ svcPrev' = IF keep THEN [request |-> svcRequest, outcome |-> svcOutcome]
                          ELSE svcPrev
    /\ svcRequest' = NoRequest
    /\ svcOutcome' = NoOutcome
    /\ UNCHANGED <<svcCalls, httpVars, restVars>>

----------------------------------------------------------------------------
(* The HTTP application: express.json, the route handler, errorHandler *)

Timestamps == {"2025-01-01T00:00:00.000Z", "2025-01-01T00:00:01.000Z"}

NoError == Err("", "", 0)
NoResponse == [status |-> 200, sent |-> <<>>]
NoBody == [message |-> Undefined, signature |-> Undefined, type |-> Undefined]
NoReq == [json |-> "none", body |-> NoBody, path |-> "", method |-> ""]
NoAnswer == [error |-> NoError, body |-> [error |-> "", timestamp |-> "", path |-> "",
                                          method |-> ""]]

\* res.status(code)
ResStatus(r, code) == [r EXCEPT !.status = code]
\* res.json(body): sends body with the status set so far
ResJson(r, body) == [r EXCEPT !.sent = Append(@, [status |-> r.status, body |-> body])]

\* values of the body fields of a request
BodyMessages ==
    {Undefined, Null, Str(""), Num("0"), Num("1"),
     Str("Original message"), Str("Different message"), Str(LongMessage)}
BodySignatures ==
    {Undefined, Str(""), Bool("false"), Num("1"),
     Str("not-a-signature"), Str("0x123"), Str(Serialized65(0, 0, 0)),
     Str(signMessage(1, "Different message")), Str(signMessage(2, "Original message")),
     Str(signMessage(3, LongMessage))}
BodyTypes == {Undefined, Str("simple"), Str("SIMPLE")}

\* what a replaced signatureService.verifySignature rejects with
ErrorNames == {"Error", "ValidationError", "UnauthorizedError", "ForbiddenError",
               "NotFoundError"}
ErrorMessages == {"Service error", "secret: key store unreachable"}
ServiceFaults == {Err(n, m, 0) : n \in ErrorNames, m \in ErrorMessages}

\* a request to POST /api/verify-signature arrives
Receive(json, message, signature, type) ==
    /\ pc = "idle"
    /\ req' = [json |-> json,
               body |-> [message |-> message, signature |-> signature, type |-> type],
               path |-> "/api/verify-signature", method |-> "POST"]
    /\ res' = NoResponse
    /\ verifierCalls' = <<>>
    /\ nextCalls' = <<>>
    /\ verifierResult' = NoOutcome
    /\ pendingError' = NoError
    /\ pc' = "bodyParser"
    /\ UNCHANGED <<prevAnswer, svcVars, restVars>>

\* express.json: malformed JSON goes to the error middleware as a SyntaxError
\* with status 400, anything else to the route
BodyParser ==
    /\ pc = "bodyParser"
    /\ IF req.json = "malformed"
       THEN /\ pendingError' = Err("SyntaxError", "Unexpected token i in JSON", 400)
            /\ pc' = "errorHandler"
       ELSE /\ pendingError' = pendingError
            /\ pc' = "handler"
    /\ UNCHANGED <<req, res, verifierCalls, verifierResult, nextCalls, prevAnswer,
                   svcVars, restVars>>

MissingFields ==
    [error |-> "Missing required fields",
     message |-> "Both message and signature are required"]

\* Mutant: only the message is validated
InvalidShapeMessageOnly(body) == ~Truthy(body.message)

\* the validation of the handler: !message || !signature
InvalidShape(body) == ~Truthy(body.message) \/ ~Truthy(body.signature)

\* signatureController.verifySignature up to its await: the validation, and the
\* call of the verifier (fault: what the verifier rejects with, if it does)
HandlerStart(fault) ==
    /\ pc = "handler"
    /\ LET message == req.body.message
           signature == req.body.signature
           type == req.body.type
       IN  IF InvalidShape(req.body)
           THEN /\ fault = NoError
                /\ res' = ResJson(ResStatus(res, 400), MissingFields)
                /\ pc' = "done"
                /\ UNCHANGED <<verifierCalls, verifierResult>>
           ELSE /\ verifierCalls' =
                       Append(verifierCalls, [message |-> message,
                                              signature |-> signature, type |-> type])
                /\ verifierResult' =
                       IF fault = NoError
                       THEN verifySignature([message |-> message,
                                             signature |-> signature, type |-> type])
                       ELSE Throw(fault)
                /\ pc' = "awaiting"
                /\ UNCHANGED res
    /\ UNCHANGED <<req, nextCalls, pendingError, prevAnswer, svcVars, restVars>>

\* Mutant: an unrecoverable signature is answered as a client error
SendResultByValidity(r, result) ==
    IF result.isValid THEN ResJson(r, result) ELSE ResJson(ResStatus(r, 400), result)

\* res.json(result) of the handler
SendResult(r, result) == ResJson(r, result)

\* Mutant: the catch block answers 500 itself and passes the error on as well
HandlerResumeAnswersItself ==
    /\ pc = "awaiting"
    /\ IF verifierResult.kind = "return"
       THEN /\ res' = SendResult(res, verifierResult.value)
            /\ pc' = "done"
            /\ UNCHANGED <<nextCalls, pendingError>>
       ELSE /\ nextCalls' = Append(nextCalls, verifierResult.value)
            /\ pendingError' = verifierResult.value
            /\ pc' = "errorHandler"
            /\ res' = ResJson(ResStatus(res, 500), [error |-> "Internal server error"])
    /\ UNCHANGED <<req, verifierCalls, verifierResult, prevAnswer, svcVars, restVars>>

\* signatureController.verifySignature after its await: res.json(result), or the
\* catch block's next(error)
HandlerResume ==
    /\ pc = "awaiting"
    /\ IF verifierResult.kind = "return"
       THEN /\ res' = SendResult(res, verifierResult.value)
            /\ pc' = "done"
            /\ UNCHANGED <<nextCalls, pendingError>>
       ELSE /\ nextCalls' = Append(nextCalls, verifierResult.value)
            /\ pendingError' = verifierResult.value
            /\ pc' = "errorHandler"
            /\ UNCHANGED res
    /\ UNCHANGED <<req, verifierCalls, verifierResult, prevAnswer, svcVars, restVars>>

\* statusCode of errorHandler
ErrorStatus(error) ==
    IF error.name = "ValidationError" THEN 400
    ELSE IF error.name = "UnauthorizedError" THEN 401
    ELSE IF error.name = "ForbiddenError" THEN 403
    ELSE IF error.name = "NotFoundError" THEN 404
    ELSE 500

\* Mutant: every unnamed error's own message is sent to the client
ErrorTextLeaks(error) ==
    IF error.name = "UnauthorizedError" THEN "Unauthorized"
    ELSE IF error.name = "ForbiddenError" THEN "Forbidden"
    ELSE IF error.name = "NotFoundError" THEN "Not found"
    ELSE error.message

\* message of errorHandler
ErrorText(error) ==
    IF error.name = "ValidationError" THEN error.message
    ELSE IF error.name = "UnauthorizedError" THEN "Unauthorized"
    ELSE IF error.name = "ForbiddenError" THEN "Forbidden"
    ELSE IF error.name = "NotFoundError" THEN "Not found"
    ELSE "Internal server error"

ErrorEnvelope(error, request, now) ==
    [error |-> ErrorText(error), timestamp |-> now,
     path |-> request.path, method |-> request.method]

\* errorHandler
ErrorHandler(now) ==
    /\ pc = "errorHandler"
    /\ res' = ResJson(ResStatus(res, ErrorStatus(pendingError)),
                      ErrorEnvelope(pendingError, req, now))
    /\ pc' = "done"
    /\ UNCHANGED <<req, verifierCalls, verifierResult, nextCalls, pendingError,
                   prevAnswer, svcVars, restVars>>

\* the response is out; the server waits for the next request
Finish ==
    /\ pc = "done"
    /\ prevAnswer' = IF pendingError # NoError
                     THEN [error |-> pendingError, body |-> res.sent[Len(res.sent)].body]
                     ELSE prevAnswer
    /\ pc' = "idle"
    /\ req' = NoReq
    /\ res' = NoResponse
    /\ verifierCalls' = <<>>
    /\ nextCalls' = <<>>
    /\ verifierResult' = NoOutcome
    /\ pendingError' = NoError
    /\ UNCHANGED <<svcVars, restVars>>

----------------------------------------------------------------------------
(* The validators of the service.  A string is the sequence of its          *)
(* characters (UTF-16 code units), so that length, trim and the regular     *)
(* expression are computed character by character.                          *)

\* the character class [a-fA-F0-9]
HexClass ==
    {"a", "b", "c", "d", "e", "f", "A", "B", "C", "D", "E", "F",
     "0", "1", "2", "3", "4", "5", "6", "7", "8", "9"}

\* Mutant: the expression has lost its end anchor: /^0x[a-fA-F0-9]{130}/
isValidSignatureFormatUnanchored(signature) ==
    /\ Len(signature) >= 2
    /\ signature[1] = "0"
    /\ signature[2] = "x"
    /\ \A k \in 3..(2 + SignatureHexLength) :
           k <= Len(signature) /\ signature[k] \in HexClass

\* signatureService.isValidSignatureFormat: /^0x[a-fA-F0-9]{130}$/.test(signature)
isValidSignatureFormat(signature) ==
    \* ^0x
    /\ Len(signature) >= 2
    /\ signature[1] = "0"
    /\ signature[2] = "x"
    \* [a-fA-F0-9]{130}
    /\ \A k \in 3..(2 + SignatureHexLength) :
           k <= Len(signature) /\ signature[k] \in HexClass
    \* $ (no m flag: the end of the input, nothing else)
    /\ Len(signature) = 2 + SignatureHexLength

\* the characters String.prototype.trim removes
Whitespace == {" ", "\t", "\n", "\r", "\f"}

\* number of whitespace characters str[from..to] starts with
RECURSIVE LeadingWhitespace(_, _, _)
LeadingWhitespace(str, from, to) ==
    IF from > to THEN 0
    ELSE IF from = to THEN (IF str[from] \in Whitespace THEN 1 ELSE 0)
    ELSE LET mid == (from + to) \div 2
             left == LeadingWhitespace(str, from, mid)
         IN  IF left = mid - from + 1
             THEN left + LeadingWhitespace(str, mid + 1, to)
             ELSE left

\* number of whitespace characters str[from..to] ends with
RECURSIVE TrailingWhitespace(_, _, _)
TrailingWhitespace(str, from, to) ==
    IF from > to THEN 0
    ELSE IF from = to THEN (IF str[from] \in Whitespace THEN 1 ELSE 0)
    ELSE LET mid == (from + to) \div 2
             right == TrailingWhitespace(str, mid + 1, to)
         IN  IF right = to - mid
             THEN right + TrailingWhitespace(str, from, mid)
             ELSE right

\* String.prototype.trim
Trim(str) ==
    LET lead == LeadingWhitespace(str, 1, Len(str))
    IN  IF lead = Len(str) THEN <<>>
        ELSE SubSeq(str, lead + 1, Len(str) - TrailingWhitespace(str, 1, Len(str)))

\* Mutant: the cap is put on the trimmed message
isValidMessageTrimmedLength(message) ==
    Len(Trim(message)) > 0 /\ Len(Trim(message)) <= MaxMessageLength

\* signatureService.isValidMessage
isValidMessage(message) ==
    Len(Trim(message)) > 0 /\ Len(message) <= MaxMessageLength

\* String.prototype.repeat on sequences of characters
Fill(pattern, count) ==
    [k \in 1..(Len(pattern) * count) |-> pattern[((k - 1) % Len(pattern)) + 1]]

\* an argument: a prefix, a pattern repeated count times, a tail
Compose(shape) == shape.prefix \o Fill(shape.fill, shape.count) \o shape.tail

NoShape == [prefix |-> <<>>, fill |-> <<>>, count |-> 0, tail |-> <<>>]

\* arguments of isValidSignatureFormat
SignatureShapes ==
    [prefix : {<<>>, <<"0", "x">>, <<"0", "X">>, <<"x", "0">>},
     fill : {<<"a">>, <<"F">>, <<"1">>, <<"g">>, <<"a", "F">>, <<"9", "G">>},
     count : {0, 1, 3, SignatureHexLength \div 2, SignatureHexLength - 1,
              SignatureHexLength, SignatureHexLength + 1},
     tail : {<<>>, <<"\n">>}]

\* arguments of isValidMessage
MessageShapes ==
    [prefix : {<<>>, <<" ">>, <<"\t", "\n">>},
     fill : {<<"A">>, <<" ">>, <<"A", " ">>},
     count : {0, 1, 3, MaxMessageLength \div 2, MaxMessageLength - 1,
              MaxMessageLength, MaxMessageLength + 1},
     tail : {<<>>, <<" ">>}]

\* a caller asks signatureService.isValidSignatureFormat
ValidateSignature(shape) ==
    /\ valFn = "none"
    /\ valFn' = "isValidSignatureFormat"
    /\ valShape' = shape
    /\ valInput' = Compose(shape)
    /\ valResult' = isValidSignatureFormat(valInput')
    /\ UNCHANGED <<uiVars, svcVars, httpVars, concVars, histVars, pageVars>>

\* a caller asks signatureService.isValidMessage
ValidateMessage(shape) ==
    /\ valFn = "none"
    /\ valFn' = "isValidMessage"
    /\ valShape' = shape
    /\ valInput' = Compose(shape)
    /\ valResult' = isValidMessage(valInput')
    /\ UNCHANGED <<uiVars, svcVars, httpVars, concVars, histVars, pageVars>>

\* the caller has its answer
ValidatorReturn ==
    /\ valFn # "none"
    /\ valFn' = "none"
    /\ valShape' = NoShape
    /\ valInput' = <<>>
    /\ valResult' = FALSE
    /\ UNCHANGED <<uiVars, svcVars, httpVars, concVars, histVars, pageVars>>

----------------------------------------------------------------------------
(* The server with several requests in flight.  Every invocation of the     *)
(* handler has its own req, res and locals; the awaits of the handler are   *)
(* the points where the event loop switches between requests.               *)

Slots == 1..MaxInFlight

IdleSlot ==
    [pc |-> "idle", req |-> NoReq, res |-> NoResponse, verifierCalls |-> <<>>,
     verifierResult |-> NoOutcome, nextCalls |-> <<>>, pendingError |-> NoError]

\* request bodies of the requests in flight
SlotMessages == {Undefined, Str("Original message")}
SlotSignatures == {Str("not-a-signature"), Str(signMessage(2, "Original message"))}
SlotTypes == {Undefined, Str("simple"), Str("SIMPLE")}
SlotFaults == {NoError, Err("Error", "Service error", 0)}

\* a request arrives while others may be anywhere in the chain
SlotReceive(i, json, message, signature, type) ==
    /\ inflight[i].pc = "idle"
    /\ inflight' = [inflight EXCEPT ![i] =
           [IdleSlot EXCEPT
               !.req = [json |-> json,
                        body |-> [message |-> message, signature |-> signature,
                                  type |-> type],
                        path |-> "/api/verify-signature", method |-> "POST"],
               !.pc = "bodyParser"]]
    /\ UNCHANGED <<uiVars, svcVars, httpVars, valVars, histVars, pageVars>>

\* express.json on the request of slot i
SlotBodyParser(i) ==
    /\ inflight[i].pc = "bodyParser"
    /\ inflight' = [inflight EXCEPT ![i] =
           IF @.req.json = "malformed"
           THEN [@ EXCEPT !.pendingError =
                              Err("SyntaxError", "Unexpected token i in JSON", 400),
                          !.pc = "errorHandler"]
           ELSE [@ EXCEPT !.pc = "handler"]]
    /\ UNCHANGED <<uiVars, svcVars, httpVars, valVars, histVars, pageVars>>

\* the handler of slot i up to its await
SlotHandlerStart(i, fault) ==
    /\ inflight[i].pc = "handler"
    /\ LET body == inflight[i].req.body
           args == [message |-> body.message, signature |-> body.signature,
                    type |-> body.type]
       IN  IF InvalidShape(body)
           THEN /\ fault = NoError
                /\ inflight' = [inflight EXCEPT ![i] =
                       [@ EXCEPT !.res = ResJson(ResStatus(@, 400), MissingFields),
                                 !.pc = "done"]]
           ELSE inflight' = [inflight EXCEPT ![i] =
                    [@ EXCEPT !.verifierCalls = Append(@, args),
                              !.verifierResult = IF fault = NoError
                                                 THEN verifySignature(args)
                                                 ELSE Throw(fault),
                              !.pc = "awaiting"]]
    /\ UNCHANGED <<uiVars, svcVars, httpVars, valVars, histVars, pageVars>>

\* Mutant: result is a variable of the module, not of the invocation: the
\* handler sends what the last verifier call still awaited has produced
SlotHandlerResumeShared(i) ==
    /\ inflight[i].pc = "awaiting"
    /\ LET awaiting == {j \in Slots : inflight[j].pc = "awaiting"}
           last == CHOOSE j \in awaiting : \A k \in awaiting : k <= j
           result == inflight[last].verifierResult
       IN  inflight' = [inflight EXCEPT ![i] =
               IF result.kind = "return"
               THEN [@ EXCEPT !.res = SendResult(@, result.value), !.pc = "done"]
               ELSE [@ EXCEPT !.nextCalls = Append(@, result.value),
                              !.pendingError = result.value,
                              !.pc = "errorHandler"]]
    /\ UNCHANGED <<uiVars, svcVars, httpVars, valVars, histVars, pageVars>>

\* the handler of slot i after its await
SlotHandlerResume(i) ==
    /\ inflight[i].pc = "awaiting"
    /\ LET result == inflight[i].verifierResult
       IN  inflight' = [inflight EXCEPT ![i] =
               IF result.kind = "return"
               THEN [@ EXCEPT !.res = SendResult(@, result.value), !.pc = "done"]
               ELSE [@ EXCEPT !.nextCalls = Append(@, result.value),
                              !.pendingError = result.value,
                              !.pc = "errorHandler"]]
    /\ UNCHANGED <<uiVars, svcVars, httpVars, valVars, histVars, pageVars>>

\* errorHandler on the error of slot i
SlotErrorHandler(i, now) ==
    /\ inflight[i].pc = "errorHandler"
    /\ inflight' = [inflight EXCEPT ![i] =
           [@ EXCEPT !.res = ResJson(ResStatus(@, ErrorStatus(inflight[i].pendingError)),
                                     ErrorEnvelope(inflight[i].pendingError,
                                                   inflight[i].req, now)),
                     !.pc = "done"]]
    /\ UNCHANGED <<uiVars, svcVars, httpVars, valVars, histVars, pageVars>>

\* the response of slot i is out: req, res and the handler's locals are garbage
SlotFinish(i) ==
    /\ inflight[i].pc = "done"
    /\ inflight' = [inflight EXCEPT ![i] = IdleSlot]
    /\ UNCHANGED <<uiVars, svcVars, httpVars, valVars, histVars, pageVars>>


----------------------------------------------------------------------------
(* useSignatureHistory.  A mounted instance has run its effects: React runs *)
(* the effects of a render before it handles the next event, so a mount or  *)
(* a state change together with the effects it triggers is one step.        *)

STORAGE_KEY == "signedMessages"

Hooks == {1, 2}

\* values of Date.now() and of Math.random().toString(36).substring(2, 9)
HistoryTimes == {1}
HistoryRandoms == {"k3j9x1a", "k3j9x1b"}
\* arguments of addMessage
HistoryTexts == {"First"}

Digits == <<"0", "1", "2", "3", "4", "5", "6", "7", "8", "9">>

\* a number in a template literal or in JSON
RECURSIVE Decimal(_)
Decimal(n) ==
    IF n < 10 THEN Digits[n + 1] ELSE Decimal(n \div 10) \o Digits[(n % 10) + 1]

\* the id addMessage gives an entry
MessageId(now, random) == Decimal(now) \o "-" \o random

\* the SignedMessage addMessage makes
NewMessage(message, signature, signer, verified, now, random) ==
    [id |-> MessageId(now, random), message |-> message, signature |-> signature,
     signer |-> signer, timestamp |-> now, verified |-> verified]

\* the entries there can be, and the lists of them
SignedMessages ==
    {NewMessage(m, "0x123", "0xabc", TRUE, now, random) :
         m \in HistoryTexts, now \in HistoryTimes, random \in HistoryRandoms}
Histories == UNION {[1..n -> SignedMessages] : n \in 0..MaxHistory}

\* JSON.stringify of a SignedMessage
MessageText(msg) ==
    "{\"id\":\"" \o msg.id \o "\",\"message\":\"" \o msg.message
    \o "\",\"signature\":\"" \o msg.signature \o "\",\"signer\":\"" \o msg.signer
    \o "\",\"timestamp\":" \o Decimal(msg.timestamp)
    \o ",\"verified\":" \o (IF msg.verified THEN "true" ELSE "false") \o "}"

RECURSIVE JoinTexts(_)
JoinTexts(list) ==
    IF list = <<>> THEN ""
    ELSE IF Len(list) = 1 THEN MessageText(list[1])
    ELSE MessageText(list[1]) \o "," \o JoinTexts(Tail(list))

\* JSON.stringify(messages)
JSONStringify(list) == "[" \o JoinTexts(list) \o "]"

\* the JSON texts of the lists, with the list each one is the text of
StoredHistories ==
    [text \in {JSONStringify(list) : list \in Histories} |->
        CHOOSE list \in Histories : JSONStringify(list) = text]

\* JSON.parse(stored)
JSONParse(text) ==
    IF text \in DOMAIN StoredHistories
    THEN Return(StoredHistories[text])
    ELSE Throw(Err("SyntaxError", "Unexpected token i in JSON", 0))

\* useState: the state of an instance before its effects, and of no instance
InitialHook == [mounted |-> FALSE, messages |-> <<>>, isLoading |-> TRUE]

NoOp == [op |-> "none", hook |-> 0, arg |-> "", before |-> 0, saved |-> FALSE]

\* what an earlier visit may have left in localStorage
InitialStorage ==
    {Str("invalid json"),
     Str(JSONStringify(<<NewMessage("First", "0x123", "0xabc", TRUE, 1, "k3j9x1a")>>))}

\* the load effect: the messages it sets (fails: localStorage throws)
LoadEffect(stored, fails) ==
    IF fails THEN <<>>
    ELSE IF stored = Null \/ stored = Str("") THEN <<>>
    ELSE LET parsedMessages == JSONParse(stored.v)
         IN  IF parsedMessages.kind = "throw" THEN <<>> ELSE parsedMessages.value

\* Mutant: an empty list is not worth a write
PersistEffectNonEmpty(stored, isLoading, list, fails) ==
    IF isLoading \/ fails \/ list = <<>> THEN stored ELSE Str(JSONStringify(list))

\* Mutant: the persist effect writes while the history is still loading
PersistEffectWhileLoading(stored, isLoading, list, fails) ==
    IF fails THEN stored ELSE Str(JSONStringify(list))

\* the persist effect: what localStorage holds after it
PersistEffect(stored, isLoading, list, fails) ==
    IF isLoading \/ fails THEN stored ELSE Str(JSONStringify(list))

\* Mutant: the new entry goes to the end of the list
addMessageLast(prev, message, signature, signer, verified, now, random) ==
    Append(prev, NewMessage(message, signature, signer, verified, now, random))

\* the list addMessage sets
addMessage(prev, message, signature, signer, verified, now, random) ==
    <<NewMessage(message, signature, signer, verified, now, random)>> \o prev

\* Mutant: the filter keeps what it should drop
removeMessageKeepsMatch(prev, id) == SelectSeq(prev, LAMBDA msg : msg.id = id)

\* the list removeMessage sets
removeMessage(prev, id) == SelectSeq(prev, LAMBDA msg : msg.id # id)

\* localStorage.setItem before any instance has mounted
SetItemBeforeMount(stored) ==
    /\ lastOp = NoOp
    /\ localStorage = Null
    /\ localStorage' = stored
    /\ UNCHANGED <<hooks, lastOp, loadingWrite, uiVars, svcVars, httpVars, concVars, valVars, pageVars>>

\* an instance mounts: first render, load effect, persist effect (isLoading still
\* true), second render, persist effect
Mount(h, fails) ==
    /\ ~hooks[h].mounted
    /\ LET loaded == LoadEffect(localStorage, fails)
           unsaved == PersistEffect(localStorage, TRUE, <<>>, fails)
       IN  /\ hooks' = [hooks EXCEPT ![h] =
                   [mounted |-> TRUE, messages |-> loaded, isLoading |-> FALSE]]
           /\ localStorage' = PersistEffect(unsaved, FALSE, loaded, fails)
           /\ loadingWrite' = (loadingWrite \/ unsaved # localStorage)
    /\ lastOp' = [op |-> "mount", hook |-> h, arg |-> "", before |-> 0,
                  saved |-> ~fails]
    /\ UNCHANGED <<uiVars, svcVars, httpVars, concVars, valVars, pageVars>>

\* the component of an instance goes away
Unmount(h) ==
    /\ hooks[h].mounted
    /\ hooks' = [hooks EXCEPT ![h] = InitialHook]
    /\ loadingWrite' = loadingWrite
    /\ lastOp' = [op |-> "unmount", hook |-> h, arg |-> "", before |-> 0,
                  saved |-> FALSE]
    /\ UNCHANGED <<localStorage, uiVars, svcVars, httpVars, concVars, valVars, pageVars>>

\* addMessage on an instance, the render and the persist effect it triggers
AddMessage(h, message, now, random, fails) ==
    /\ hooks[h].mounted
    /\ Len(hooks[h].messages) < MaxHistory
    /\ hooks' = [hooks EXCEPT ![h].messages =
                    addMessage(@, message, "0x123", "0xabc", TRUE, now, random)]
    /\ localStorage' = PersistEffect(localStorage, hooks'[h].isLoading,
                                     hooks'[h].messages, fails)
    /\ loadingWrite' = loadingWrite
    /\ lastOp' = [op |-> "add", hook |-> h, arg |-> message,
                  before |-> Len(hooks[h].messages), saved |-> ~fails]
    /\ UNCHANGED <<uiVars, svcVars, httpVars, concVars, valVars, pageVars>>

\* removeMessage on an instance, the render and the persist effect it triggers
RemoveMessage(h, id, fails) ==
    /\ hooks[h].mounted
    /\ hooks' = [hooks EXCEPT ![h].messages = removeMessage(@, id)]
    /\ localStorage' = PersistEffect(localStorage, hooks'[h].isLoading,
                                     hooks'[h].messages, fails)
    /\ loadingWrite' = loadingWrite
    /\ lastOp' = [op |-> "remove", hook |-> h, arg |-> id,
                  before |-> Len(hooks[h].messages), saved |-> ~fails]
    /\ UNCHANGED <<uiVars, svcVars, httpVars, concVars, valVars, pageVars>>

\* clearHistory on an instance, the render and the persist effect it triggers
ClearHistory(h, fails) ==
    /\ hooks[h].mounted
    /\ hooks' = [hooks EXCEPT ![h].messages = <<>>]
    /\ localStorage' = PersistEffect(localStorage, hooks'[h].isLoading,
                                     hooks'[h].messages, fails)
    /\ loadingWrite' = loadingWrite
    /\ lastOp' = [op |-> "clear", hook |-> h, arg |-> "",
                  before |-> Len(hooks[h].messages), saved |-> ~fails]
    /\ UNCHANGED <<uiVars, svcVars, httpVars, concVars, valVars, pageVars>>


----------------------------------------------------------------------------
(* SignPage.  The texts of the page are sequences of characters.  A handler *)
(* that awaits works after the await with the message, the signature and    *)
(* the address of the render it was started in; what it sets is set in the  *)
(* state of the page as it is then.  SignPage uses instance 1 of            *)
(* useSignatureHistory.                                                      *)

\* what the user types into the textarea
PageTexts == {<<>>, <<"a">>, <<"a", " ">>, <<" ", "b">>}

\* a string of the page as a string of the history
RECURSIVE JoinChars(_)
JoinChars(chars) ==
    IF chars = <<>> THEN "" ELSE chars[1] \o JoinChars(Tail(chars))

\* the signature the wallet gives for a text: different texts, different signatures
WalletSignature(text) == <<"0", "x">> \o text

\* values of Math.random().toString(36).substring(2, 9) while SignPage is used
PageRandoms == {"k3j9x1a"}

\* address of useWallet: the first verified credential of the user, or null
WalletAddresses == {Str("0xabc"), Null}

InitialPage ==
    [message |-> <<>>, signature |-> <<>>, isSigning |-> FALSE, isVerifying |-> FALSE,
     verificationResult |-> Null, error |-> Null]

NoSign == [pending |-> FALSE, text |-> <<>>]
NoFetch == [pending |-> FALSE, message |-> <<>>, signature |-> <<>>, address |-> Null]

\* how the awaited signMessage ends
SignOutcomes == {"signed", "rejected", "empty"}

\* how the awaited fetch ends: the request fails, the response is not ok, or it
\* is ok with a result
VerifyResults ==
    {[isValid |-> TRUE, signer |-> "0xabc"], [isValid |-> TRUE, signer |-> ""],
     [isValid |-> FALSE, signer |-> ""]}
VerifyResponses ==
    {[kind |-> "rejected", ok |-> FALSE, result |-> [isValid |-> FALSE, signer |-> ""]],
     [kind |-> "response", ok |-> FALSE, result |-> [isValid |-> FALSE, signer |-> ""]]}
    \cup {[kind |-> "response", ok |-> TRUE, result |-> r] : r \in VerifyResults}

\* the textarea's onChange
Type(text) ==
    /\ hooks[1].mounted
    /\ text # page.message
    /\ page' = [page EXCEPT !.message = text]
    /\ formReset' = FALSE
    /\ UNCHANGED <<signRequest, verifyRequest, uiVars, svcVars, httpVars, concVars, valVars,
                   histVars>>

\* a click on Sign Message (enabled unless isSigning, not connected or the
\* message is blank): handleSignMessage up to its await
ClickSign(connectionState) ==
    /\ hooks[1].mounted
    /\ ~page.isSigning
    /\ connectionState = "connected"
    /\ Trim(page.message) # <<>>
    /\ IF Trim(page.message) = <<>>
       THEN /\ page' = [page EXCEPT !.error = Str("Please enter a message to sign")]
            /\ UNCHANGED signRequest
       ELSE IF connectionState # "connected"
       THEN /\ page' = [page EXCEPT !.error = Str("Please connect your wallet first")]
            /\ UNCHANGED signRequest
       ELSE /\ page' = [page EXCEPT !.isSigning = TRUE, !.error = Null]
            /\ signRequest' = [pending |-> TRUE, text |-> Trim(page.message)]
    /\ formReset' = FALSE
    /\ UNCHANGED <<verifyRequest, uiVars, svcVars, httpVars, concVars, valVars, histVars>>

\* handleSignMessage after its await
SignSettle(outcome) ==
    /\ signRequest.pending
    /\ page' =
           IF outcome = "signed"
           THEN [page EXCEPT !.signature = WalletSignature(signRequest.text),
                             !.isSigning = FALSE]
           ELSE IF outcome = "rejected"
           THEN [page EXCEPT !.error = Str("User rejected signature"),
                             !.isSigning = FALSE]
           ELSE [page EXCEPT !.error = Str("Failed to generate signature"),
                             !.isSigning = FALSE]
    /\ signRequest' = NoSign
    /\ UNCHANGED <<verifyRequest, formReset, uiVars, svcVars, httpVars, concVars, valVars, histVars>>

\* a click on Verify Signature (shown while there is a signature, enabled unless
\* isVerifying): handleVerifySignature up to its await
ClickVerify(address) ==
    /\ hooks[1].mounted
    /\ page.signature # <<>>
    /\ ~page.isVerifying
    /\ IF page.signature = <<>> \/ page.message = <<>>
       THEN /\ page' = [page EXCEPT !.error = Str("Please sign a message first")]
            /\ UNCHANGED verifyRequest
       ELSE /\ page' = [page EXCEPT !.isVerifying = TRUE, !.error = Null]
            /\ verifyRequest' = [pending |-> TRUE, message |-> Trim(page.message),
                                 signature |-> page.signature, address |-> address]
    /\ UNCHANGED <<signRequest, formReset, uiVars, svcVars, httpVars, concVars, valVars, histVars>>

\* result.signer || address || 'Unknown'
SignerOf(result, address) ==
    IF result.signer # "" THEN result.signer
    ELSE IF Truthy(address) THEN address.v
    ELSE "Unknown"

\* Mutant: every result of an ok response goes into the history, valid or not
VerifySettleAddsInvalid(response, now, random, fails) ==
    /\ verifyRequest.pending
    /\ verifyRequest' = NoFetch
    /\ IF response.kind = "rejected"
       THEN /\ page' = [page EXCEPT !.error = Str("Failed to fetch"),
                                    !.isVerifying = FALSE]
            /\ UNCHANGED histVars
       ELSE IF ~response.ok
       THEN /\ page' = [page EXCEPT !.error = Str("Failed to verify signature"),
                                    !.isVerifying = FALSE]
            /\ UNCHANGED histVars
       ELSE /\ page' = [page EXCEPT !.verificationResult = response.result,
                                    !.isVerifying = FALSE]
            /\ IF response.ok
               THEN /\ Len(hooks[1].messages) < MaxPageEntries
                    /\ hooks' = [hooks EXCEPT ![1].messages =
                           addMessage(@, JoinChars(verifyRequest.message),
                                      JoinChars(verifyRequest.signature),
                                      SignerOf(response.result, verifyRequest.address),
                                      TRUE, now, random)]
                    /\ localStorage' = PersistEffect(localStorage, hooks'[1].isLoading,
                                                     hooks'[1].messages, fails)
                    /\ loadingWrite' = loadingWrite
                    /\ lastOp' = [op |-> "add", hook |-> 1,
                                  arg |-> JoinChars(verifyRequest.message),
                                  before |-> Len(hooks[1].messages), saved |-> ~fails]
               ELSE UNCHANGED histVars
    /\ UNCHANGED <<signRequest, formReset, uiVars, svcVars, httpVars, concVars, valVars>>

\* handleVerifySignature after its await; a valid result goes into the history
VerifySettle(response, now, random, fails) ==
    /\ verifyRequest.pending
    /\ verifyRequest' = NoFetch
    /\ IF response.kind = "rejected"
       THEN /\ page' = [page EXCEPT !.error = Str("Failed to fetch"),
                                    !.isVerifying = FALSE]
            /\ UNCHANGED histVars
       ELSE IF ~response.ok
       THEN /\ page' = [page EXCEPT !.error = Str("Failed to verify signature"),
                                    !.isVerifying = FALSE]
            /\ UNCHANGED histVars
       ELSE /\ page' = [page EXCEPT !.verificationResult = response.result,
                                    !.isVerifying = FALSE]
            /\ IF response.result.isValid
               THEN /\ Len(hooks[1].messages) < MaxPageEntries
                    /\ hooks' = [hooks EXCEPT ![1].messages =
                           addMessage(@, JoinChars(verifyRequest.message),
                                      JoinChars(verifyRequest.signature),
                                      SignerOf(response.result, verifyRequest.address),
                                      TRUE, now, random)]
                    /\ localStorage' = PersistEffect(localStorage, hooks'[1].isLoading,
                                                     hooks'[1].messages, fails)
                    /\ loadingWrite' = loadingWrite
                    /\ lastOp' = [op |-> "add", hook |-> 1,
                                  arg |-> JoinChars(verifyRequest.message),
                                  before |-> Len(hooks[1].messages), saved |-> ~fails]
               ELSE UNCHANGED histVars
    /\ UNCHANGED <<signRequest, formReset, uiVars, svcVars, httpVars, concVars, valVars>>

\* a click on Reset (shown while there is a signature): handleReset
Reset ==
    /\ hooks[1].mounted
    /\ page.signature # <<>>
    /\ page' = [page EXCEPT !.message = <<>>, !.signature = <<>>,
                            !.verificationResult = Null, !.error = Null]
    /\ formReset' = TRUE
    /\ UNCHANGED <<signRequest, verifyRequest, uiVars, svcVars, httpVars, concVars, valVars,
                   histVars>>

----------------------------------------------------------------------------
(* WalletProvider (contexts/WalletContext.tsx) and its EmailAuthModal *)

\* what the actions of WalletProvider leave alone
otherVars == <<svcVars, httpVars, concVars, valVars, histVars, pageVars, mfaVars>>

\* useDynamicContext() before a login: no user, no primary wallet
NoDynamic == [user |-> FALSE, primaryWallet |-> FALSE]

\* the useState initial values of WalletProvider
InitialWallet ==
    [connectionState |-> "disconnected", error |-> Null, isAuthModalOpen |-> FALSE,
     authStep |-> "email"]

\* the useState initial value of EmailAuthModal the handlers below depend on
InitialAuthModal == [isLoading |-> FALSE]

\* no call of the SDK awaited
NoWalletCalls == [email |-> 0, resend |-> 0, otp |-> 0, logout |-> 0]

NoWalletOp == [op |-> "none", err |-> Null]

\* what a rejected SDK promise carries: an Error with a message, or another value
SdkErrors == {[isError |-> TRUE, message |-> "Logout failed"],
              [isError |-> FALSE, message |-> ""]}

\* err instanceof Error ? err.message : fallback
ErrorMessage(err, fallback) == IF err.isError THEN Str(err.message) ELSE Str(fallback)

\* how an awaited SDK promise settles
SdkOutcomes == {[resolved |-> TRUE, err |-> Null]}
               \cup {[resolved |-> FALSE, err |-> e] : e \in SdkErrors}

\* the effect on [user, primaryWallet] without its branch for a missing user
AuthStateEffectConnectsOnly(w, d) ==
    IF d.user /\ d.primaryWallet
    THEN [w EXCEPT !.connectionState = "connected", !.error = Null,
                   !.isAuthModalOpen = FALSE, !.authStep = "email"]
    ELSE w

\* the effect on [user, primaryWallet]
AuthStateEffect(w, d) ==
    IF d.user /\ d.primaryWallet
    THEN [w EXCEPT !.connectionState = "connected", !.error = Null,
                   !.isAuthModalOpen = FALSE, !.authStep = "email"]
    ELSE IF ~d.user
         THEN [w EXCEPT !.connectionState = "disconnected"]
         ELSE w

\* the SDK hands WalletProvider another user or primary wallet; the effect runs
DynamicChange(user, primaryWallet) ==
    /\ <<user, primaryWallet>> # <<dynamic.user, dynamic.primaryWallet>>
    /\ dynamic' = [user |-> user, primaryWallet |-> primaryWallet]
    /\ wallet' = AuthStateEffect(wallet, dynamic')
    /\ codeSent' = IF user /\ primaryWallet THEN FALSE ELSE codeSent
    /\ walletOp' = [op |-> "dynamic", err |-> Null]
    /\ UNCHANGED <<authModal, walletCalls, otherVars>>

\* connect()
Connect ==
    /\ wallet' = [wallet EXCEPT !.error = Null, !.authStep = "email",
                                !.isAuthModalOpen = TRUE]
    /\ codeSent' = FALSE
    /\ walletOp' = [op |-> "connect", err |-> Null]
    /\ UNCHANGED <<dynamic, authModal, walletCalls, otherVars>>

\* the email form of the modal is submitted: EmailAuthModal.handleEmailSubmit and
\* WalletProvider.handleEmailSubmit up to its await
EmailSubmit ==
    /\ wallet.isAuthModalOpen
    /\ wallet.authStep = "email"
    /\ ~authModal.isLoading
    /\ walletCalls.email < MaxWalletCalls
    /\ authModal' = [authModal EXCEPT !.isLoading = TRUE]
    /\ wallet' = [wallet EXCEPT !.error = Null]
    /\ walletCalls' = [walletCalls EXCEPT !.email = @ + 1]
    /\ walletOp' = [op |-> "emailSubmit", err |-> Null]
    /\ UNCHANGED <<dynamic, codeSent, otherVars>>

\* a click on Resend: EmailAuthModal.handleResendOtp and
\* WalletProvider.handleEmailSubmit up to its await
ResendOtp ==
    /\ wallet.isAuthModalOpen
    /\ wallet.authStep = "verification"
    /\ ~authModal.isLoading
    /\ walletCalls.resend < MaxWalletCalls
    /\ wallet' = [wallet EXCEPT !.error = Null]
    /\ walletCalls' = [walletCalls EXCEPT !.resend = @ + 1]
    /\ walletOp' = [op |-> "resend", err |-> Null]
    /\ UNCHANGED <<dynamic, authModal, codeSent, otherVars>>

\* connectWithEmail settles: the rest of WalletProvider.handleEmailSubmit, and the
\* finally of EmailAuthModal.handleEmailSubmit when the form made the call
EmailSettle(call, outcome) ==
    /\ walletCalls[call] > 0
    /\ walletCalls' = [walletCalls EXCEPT ![call] = @ - 1]
    /\ wallet' = IF outcome.resolved
                 THEN [wallet EXCEPT !.authStep = "verification"]
                 ELSE [wallet EXCEPT
                         !.error = ErrorMessage(outcome.err,
                                                "Failed to send verification code"),
                         !.authStep = "email"]
    /\ authModal' = IF call = "email" THEN [authModal EXCEPT !.isLoading = FALSE]
                    ELSE authModal
    /\ codeSent' = (outcome.resolved \/ codeSent)
    /\ walletOp' = [op |-> IF outcome.resolved THEN "emailResolved" ELSE "emailRejected",
                    err |-> outcome.err]
    /\ UNCHANGED <<dynamic, otherVars>>

\* the code is complete or Verify and Connect is clicked:
\* EmailAuthModal.handleVerificationSubmit and
\* WalletProvider.handleVerificationSubmit up to its await
VerificationSubmit ==
    /\ wallet.isAuthModalOpen
    /\ wallet.authStep = "verification"
    /\ ~authModal.isLoading
    /\ walletCalls.otp < MaxWalletCalls
    /\ authModal' = [authModal EXCEPT !.isLoading = TRUE]
    /\ wallet' = [wallet EXCEPT !.error = Null, !.authStep = "creating"]
    /\ walletCalls' = [walletCalls EXCEPT !.otp = @ + 1]
    /\ walletOp' = [op |-> "verificationSubmit", err |-> Null]
    /\ UNCHANGED <<dynamic, codeSent, otherVars>>

\* verifyOneTimePassword settles: the rest of WalletProvider.handleVerificationSubmit,
\* then the catch and finally of EmailAuthModal.handleVerificationSubmit
VerificationSettle(outcome) ==
    /\ walletCalls.otp > 0
    /\ walletCalls' = [walletCalls EXCEPT !.otp = @ - 1]
    /\ wallet' = IF outcome.resolved
                 THEN wallet
                 ELSE [wallet EXCEPT
                         !.error = ErrorMessage(outcome.err, "Invalid verification code"),
                         !.authStep = "verification"]
    /\ authModal' = [authModal EXCEPT !.isLoading = FALSE]
    /\ walletOp' = [op |-> IF outcome.resolved THEN "otpResolved" ELSE "otpRejected",
                    err |-> outcome.err]
    /\ UNCHANGED <<dynamic, codeSent, otherVars>>

\* the modal is closed, by its X button (disabled while loading or creating) or by a
\* click on its backdrop: EmailAuthModal.handleClose and handleCloseAuthModal
CloseAuthModal(control) ==
    /\ wallet.isAuthModalOpen
    /\ control = "button" => ~authModal.isLoading /\ wallet.authStep # "creating"
    /\ authModal' = [authModal EXCEPT !.isLoading = FALSE]
    /\ wallet' = [wallet EXCEPT !.isAuthModalOpen = FALSE, !.authStep = "email",
                                !.error = Null]
    /\ codeSent' = FALSE
    /\ walletOp' = [op |-> "close", err |-> Null]
    /\ UNCHANGED <<dynamic, walletCalls, otherVars>>

\* disconnect() up to its await
Disconnect ==
    /\ walletCalls.logout < MaxWalletCalls
    /\ walletCalls' = [walletCalls EXCEPT !.logout = @ + 1]
    /\ walletOp' = [op |-> "disconnect", err |-> Null]
    /\ UNCHANGED <<dynamic, wallet, authModal, codeSent, otherVars>>

\* handleLogOut settles: resolved, the SDK has dropped the user and the wallet, the
\* effect runs and disconnect() continues; rejected, disconnect() catches
LogOutSettle(outcome) ==
    /\ walletCalls.logout > 0
    /\ walletCalls' = [walletCalls EXCEPT !.logout = @ - 1]
    /\ IF outcome.resolved
       THEN /\ dynamic' = NoDynamic
            /\ wallet' = [AuthStateEffect(wallet, dynamic') EXCEPT
                            !.connectionState = "disconnected", !.error = Null]
       ELSE /\ dynamic' = dynamic
            /\ wallet' = [wallet EXCEPT
                            !.error = ErrorMessage(outcome.err,
                                                   "Failed to disconnect wallet")]
    /\ walletOp' = [op |-> IF outcome.resolved THEN "logoutResolved" ELSE "logoutRejected",
                    err |-> outcome.err]
    /\ UNCHANGED <<authModal, codeSent, otherVars>>

----------------------------------------------------------------------------
(* useMFA (hooks/useMFA.ts) *)

\* what the actions of useMFA leave alone
nonMfaVars == <<svcVars, httpVars, concVars, valVars, histVars, pageVars, walletVars>>

MfaViews == {"devices", "qr-code", "otp", "backup-codes"}

\* the useState initial values of useMFA
InitialMfa ==
    [devices |-> <<>>, mfaRegisterData |-> Null, currentView |-> "devices",
     backupCodes |-> <<>>, error |-> Null, isModalOpen |-> FALSE]

\* the useRef initial values of useMFA
InitialMfaRefs ==
    [handlingMfaFlow |-> FALSE, mfaFlowHandled |-> FALSE, hasInitializedDevices |-> FALSE]

\* userWithMissingInfo: undefined, or a user object whose scope does or does not
\* include 'requiresAdditionalAuth'; version tells one object from the next
NoMissingInfo == [present |-> FALSE, requires |-> FALSE, version |-> 0]
MissingInfos ==
    {NoMissingInfo}
    \cup {[present |-> TRUE, requires |-> TRUE, version |-> n] : n \in {1, 2}}

\* useIsLoggedIn() and useDynamicContext().userWithMissingInfo before a login
InitialMfaSdk == [isLogged |-> FALSE, userWithMissingInfo |-> NoMissingInfo]

\* what the SDK's getUserDevices, addDevice and getRecoveryCodes resolve with
UserDevices == <<"totp">>
RegisterData == Str("otpauth://totp")
RecoveryCodes == <<"code-1">>

\* what a rejected promise of the SDK's MFA calls carries
MfaErrors == {[isError |-> TRUE, message |-> "Network error"],
              [isError |-> FALSE, message |-> ""]}

MfaOutcomes == {[resolved |-> TRUE, err |-> Null]}
               \cup {[resolved |-> FALSE, err |-> e] : e \in MfaErrors}

\* an awaited SDK call: the function, the function of the hook that awaits it, and
\* the isLogged its refreshDevices closed over
MfaCall(fn, caller, isLogged) == [fn |-> fn, caller |-> caller, isLogged |-> isLogged]

\* the awaited calls are kept in one order: which was made first makes no difference
CallRank(call) ==
    (CASE call.fn = "getUserDevices" -> 0
       [] call.fn = "addDevice" -> 2
       [] call.fn = "authDevice" -> 4
       [] call.fn = "getRecoveryCodes" -> 6)
    + (IF call.caller = "verifyDevice" /\ call.isLogged THEN 1 ELSE 0)

Awaiting(seq, call) ==
    LET k == Cardinality({j \in 1..Len(seq) : CallRank(seq[j]) <= CallRank(call)})
    IN  SubSeq(seq, 1, k) \o <<call>> \o SubSeq(seq, k + 1, Len(seq))

Without(seq, i) == [k \in 1..(Len(seq) - 1) |-> IF k < i THEN seq[k] ELSE seq[k + 1]]

\* refreshDevices goes on to call getUserDevices
RefreshStarts(isLogged, refs) == isLogged /\ ~refs.handlingMfaFlow

\* checkMfaRequired without its guard on mfaFlowHandled
checkMfaRequiredUnguarded(info, refs) == info.present /\ info.requires

\* checkMfaRequired opens the modal
checkMfaRequired(info, refs) == info.present /\ info.requires /\ ~refs.mfaFlowHandled

\* useIsLoggedIn() changes; the effect on [isLogged, refreshDevices] runs
LoggedChange(isLogged) ==
    /\ isLogged # mfaSdk.isLogged
    /\ mfaSdk' = [mfaSdk EXCEPT !.isLogged = isLogged]
    /\ IF isLogged
       THEN /\ mfa' = mfa
            /\ IF ~mfaRefs.hasInitializedDevices
               THEN IF RefreshStarts(isLogged, mfaRefs)
                    THEN /\ Len(mfaCalls) < MaxMfaCalls
                         /\ mfaRefs' = [mfaRefs EXCEPT !.hasInitializedDevices = TRUE,
                                                       !.handlingMfaFlow = TRUE]
                         /\ mfaCalls' = Awaiting(mfaCalls,
                                MfaCall("getUserDevices", "refreshDevices", TRUE))
                    ELSE /\ mfaRefs' = [mfaRefs EXCEPT !.hasInitializedDevices = TRUE]
                         /\ mfaCalls' = mfaCalls
               ELSE UNCHANGED <<mfaRefs, mfaCalls>>
            /\ mfaCleared' = FALSE
            /\ autoOpened' = autoOpened
       ELSE /\ mfa' = [mfa EXCEPT !.devices = <<>>, !.mfaRegisterData = Null,
                                  !.backupCodes = <<>>, !.error = Null,
                                  !.isModalOpen = FALSE]
            /\ mfaRefs' = InitialMfaRefs
            /\ mfaCalls' = mfaCalls
            /\ mfaCleared' = TRUE
            /\ autoOpened' = FALSE
    /\ mfaOp' = "other"
    /\ UNCHANGED <<mfaTimers, nonMfaVars>>

\* userWithMissingInfo changes; the effect on [userWithMissingInfo] runs
UserInfoChange(info) ==
    /\ info # mfaSdk.userWithMissingInfo
    /\ mfaSdk' = [mfaSdk EXCEPT !.userWithMissingInfo = info]
    /\ IF checkMfaRequired(info, mfaRefs)
       THEN /\ mfaRefs' = [mfaRefs EXCEPT !.mfaFlowHandled = TRUE]
            /\ mfa' = [mfa EXCEPT !.error = Null, !.mfaRegisterData = Null,
                                  !.currentView = "otp", !.isModalOpen = TRUE]
            /\ mfaCleared' = FALSE
            /\ autoOpened' = TRUE
            /\ mfaOp' = "autoOpen"
       ELSE /\ UNCHANGED <<mfaRefs, mfa, mfaCleared, autoOpened>>
            /\ mfaOp' = "userInfo"
    /\ UNCHANGED <<mfaCalls, mfaTimers, nonMfaVars>>

\* openModal() up to its await
OpenModal ==
    /\ mfa' = [mfa EXCEPT !.error = Null, !.currentView = "devices", !.isModalOpen = TRUE]
    /\ IF mfa.devices = <<>> /\ RefreshStarts(mfaSdk.isLogged, mfaRefs)
       THEN /\ Len(mfaCalls) < MaxMfaCalls
            /\ mfaRefs' = [mfaRefs EXCEPT !.handlingMfaFlow = TRUE]
            /\ mfaCalls' = Awaiting(mfaCalls,
                                  MfaCall("getUserDevices", "refreshDevices", TRUE))
       ELSE UNCHANGED <<mfaRefs, mfaCalls>>
    /\ mfaCleared' = FALSE
    /\ mfaOp' = "other"
    /\ UNCHANGED <<mfaSdk, autoOpened, mfaTimers, nonMfaVars>>

\* a click on the X or the backdrop of the open MFAModal: closeModal() closes and
\* schedules the reset 300 ms later
CloseModal ==
    /\ mfa.isModalOpen
    /\ mfaTimers < MaxMfaCalls
    /\ mfa' = [mfa EXCEPT !.isModalOpen = FALSE, !.error = Null]
    /\ mfaTimers' = mfaTimers + 1
    /\ mfaCleared' = FALSE
    /\ mfaOp' = "other"
    /\ UNCHANGED <<mfaSdk, mfaRefs, mfaCalls, autoOpened, nonMfaVars>>

\* a timeout of closeModal fires
CloseTimeout ==
    /\ mfaTimers > 0
    /\ mfaTimers' = mfaTimers - 1
    /\ mfa' = [mfa EXCEPT !.mfaRegisterData = Null, !.currentView = "devices"]
    /\ mfaOp' = "timeout"
    /\ UNCHANGED <<mfaSdk, mfaRefs, mfaCalls, mfaCleared, autoOpened, nonMfaVars>>

\* a click on Add Device, in the 'devices' view of the open MFAModal: addDevice() up
\* to its await
AddDevice ==
    /\ mfa.isModalOpen
    /\ mfa.currentView = "devices"
    /\ Len(mfaCalls) < MaxMfaCalls
    /\ mfa' = [mfa EXCEPT !.error = Null]
    /\ mfaCalls' = Awaiting(mfaCalls, MfaCall("addDevice", "addDevice", TRUE))
    /\ mfaCleared' = FALSE
    /\ mfaOp' = "other"
    /\ UNCHANGED <<mfaSdk, mfaRefs, autoOpened, mfaTimers, nonMfaVars>>

\* the code is complete, in the 'otp' view of the open MFAModal: verifyDevice(code)
\* up to its first await
VerifyDevice ==
    /\ mfa.isModalOpen
    /\ mfa.currentView = "otp"
    /\ Len(mfaCalls) < MaxMfaCalls
    /\ mfa' = [mfa EXCEPT !.error = Null]
    /\ mfaCalls' = Awaiting(mfaCalls, MfaCall("authDevice", "verifyDevice", mfaSdk.isLogged))
    /\ mfaCleared' = FALSE
    /\ mfaOp' = "other"
    /\ UNCHANGED <<mfaSdk, mfaRefs, autoOpened, mfaTimers, nonMfaVars>>

\* a click on I've Saved My Backup Codes, in the 'backup-codes' view of the open
\* MFAModal: acknowledgeBackupCodes(), then closeModal()
AcknowledgeBackupCodes ==
    /\ mfa.isModalOpen
    /\ mfa.currentView = "backup-codes"
    /\ mfaTimers < MaxMfaCalls
    /\ mfa' = [mfa EXCEPT !.currentView = "devices", !.mfaRegisterData = Null,
                          !.backupCodes = <<>>, !.isModalOpen = FALSE, !.error = Null]
    /\ mfaTimers' = mfaTimers + 1
    /\ mfaCleared' = FALSE
    /\ mfaOp' = "other"
    /\ UNCHANGED <<mfaSdk, mfaRefs, mfaCalls, autoOpened, nonMfaVars>>

\* a click on Continue, in the 'qr-code' view of the open MFAModal:
\* setCurrentView('otp')
SetCurrentView(view) ==
    /\ mfa.isModalOpen
    /\ mfa.currentView = "qr-code"
    /\ mfa.mfaRegisterData # Null
    /\ view = "otp"
    /\ mfa' = [mfa EXCEPT !.currentView = view]
    /\ mfaCleared' = FALSE
    /\ mfaOp' = "other"
    /\ UNCHANGED <<mfaSdk, mfaRefs, mfaCalls, autoOpened, mfaTimers, nonMfaVars>>

\* a click on the button of a device, in the 'devices' view of the open MFAModal:
\* deleteDevice(id) throws inside its own try
DeleteDevice ==
    /\ mfa.isModalOpen
    /\ mfa.currentView = "devices"
    /\ mfa.devices # <<>>
    /\ mfa' = [mfa EXCEPT !.error =
                 Str("Device deletion must be done through the Dynamic dashboard.")]
    /\ mfaCleared' = FALSE
    /\ mfaOp' = "other"
    /\ UNCHANGED <<mfaSdk, mfaRefs, mfaCalls, autoOpened, mfaTimers, nonMfaVars>>

\* verifyDevice after its await of refreshDevices: the flow is over
VerifyDeviceEnds(refs) == [refs EXCEPT !.mfaFlowHandled = FALSE, !.handlingMfaFlow = FALSE]

\* an awaited SDK call settles and the function that awaits it goes on, to its next
\* await or to its end
MfaSettle(i, outcome) ==
    /\ i \in 1..Len(mfaCalls)
    /\ LET call == mfaCalls[i]
           rest == Without(mfaCalls, i)
       IN  CASE call.fn = "getUserDevices" ->
                 /\ mfa' = IF outcome.resolved
                           THEN [mfa EXCEPT !.devices = UserDevices]
                           ELSE [mfa EXCEPT !.error =
                                   ErrorMessage(outcome.err, "Failed to fetch devices")]
                 /\ mfaRefs' = IF call.caller = "verifyDevice"
                               THEN VerifyDeviceEnds(mfaRefs)
                               ELSE [mfaRefs EXCEPT !.handlingMfaFlow = FALSE]
                 /\ mfaCalls' = rest
                 /\ autoOpened' = (autoOpened /\ call.caller # "verifyDevice")
            [] call.fn = "addDevice" ->
                 /\ mfa' = IF outcome.resolved
                           THEN [mfa EXCEPT !.mfaRegisterData = RegisterData,
                                            !.currentView = "qr-code"]
                           ELSE [mfa EXCEPT !.error =
                                   ErrorMessage(outcome.err, "Failed to add device")]
                 /\ mfaCalls' = rest
                 /\ UNCHANGED <<mfaRefs, autoOpened>>
            [] call.fn = "authDevice" ->
                 /\ mfa' = IF outcome.resolved
                           THEN mfa
                           ELSE [mfa EXCEPT !.error =
                                   ErrorMessage(outcome.err, "Invalid verification code")]
                 /\ mfaCalls' = IF outcome.resolved
                                THEN Awaiting(rest, [call EXCEPT !.fn = "getRecoveryCodes"])
                                ELSE rest
                 /\ UNCHANGED <<mfaRefs, autoOpened>>
            [] call.fn = "getRecoveryCodes" ->
                 IF ~outcome.resolved
                 THEN /\ mfa' = [mfa EXCEPT !.error =
                                   ErrorMessage(outcome.err, "Invalid verification code")]
                      /\ mfaCalls' = rest
                      /\ UNCHANGED <<mfaRefs, autoOpened>>
                 ELSE /\ mfa' = [mfa EXCEPT !.backupCodes = RecoveryCodes,
                                            !.currentView = "backup-codes"]
                      /\ IF RefreshStarts(call.isLogged, mfaRefs)
                         THEN /\ mfaRefs' = [mfaRefs EXCEPT !.handlingMfaFlow = TRUE]
                              /\ mfaCalls' = Awaiting(rest, [call EXCEPT !.fn = "getUserDevices"])
                              /\ autoOpened' = autoOpened
                         ELSE /\ mfaRefs' = VerifyDeviceEnds(mfaRefs)
                              /\ mfaCalls' = rest
                              /\ autoOpened' = FALSE
    /\ mfaOp' = "other"
    /\ UNCHANGED <<mfaSdk, mfaCleared, mfaTimers, nonMfaVars>>


----------------------------------------------------------------------------
(* Specifications *)

Init ==
    /\ svcRequest = NoRequest
    /\ svcOutcome = NoOutcome
    /\ svcPrev = NoCall
    /\ svcCalls = 0
    /\ pc = "idle"
    /\ req = NoReq
    /\ res = NoResponse
    /\ verifierCalls = <<>>
    /\ verifierResult = NoOutcome
    /\ nextCalls = <<>>
    /\ pendingError = NoError
    /\ prevAnswer = NoAnswer
    /\ inflight = [i \in Slots |-> IdleSlot]
    /\ valFn = "none"
    /\ valShape = NoShape
    /\ valInput = <<>>
    /\ valResult = FALSE
    /\ localStorage = Null
    /\ hooks = [h \in Hooks |-> InitialHook]
    /\ lastOp = NoOp
    /\ loadingWrite = FALSE
    /\ page = InitialPage
    /\ signRequest = NoSign
    /\ verifyRequest = NoFetch
    /\ formReset = FALSE
    /\ dynamic = NoDynamic
    /\ wallet = InitialWallet
    /\ authModal = InitialAuthModal
    /\ walletCalls = NoWalletCalls
    /\ walletOp = NoWalletOp
    /\ codeSent = FALSE
    /\ mfaSdk = InitialMfaSdk
    /\ mfa = InitialMfa
    /\ mfaRefs = InitialMfaRefs
    /\ mfaCalls = <<>>
    /\ mfaTimers = 0
    /\ mfaOp = "other"
    /\ mfaCleared = TRUE
    /\ autoOpened = FALSE

\* the HTTP application
Next ==
    \/ \E json \in {"ok", "malformed"}, m \in BodyMessages, s \in BodySignatures,
          t \in BodyTypes :
          /\ (json = "malformed" => m = Undefined /\ s = Undefined /\ t = Undefined)
          /\ Receive(json, m, s, t)
    \/ BodyParser
    \/ \E fault \in ServiceFaults \cup {NoError} : HandlerStart(fault)
    \/ HandlerResume
    \/ \E now \in Timestamps : ErrorHandler(now)
    \/ Finish

Spec == Init /\ [][Next]_vars

\* direct calls of signatureService.verifySignature
NextService ==
    \/ \E m \in ServiceMessages, s \in ServiceSignatures : ServiceVerify(m, s)
    \/ ServiceReturn

SpecService == Init /\ [][NextService]_vars

\* series of direct calls of signatureService.verifySignature
NextServiceCalls ==
    \/ \E m \in ServiceMessages, s \in RepeatedSignatures : CallVerify(m, s)
    \/ \E keep \in BOOLEAN : CallReturn(keep)

SpecServiceCalls == Init /\ [][NextServiceCalls]_vars

\* the HTTP application with several requests in flight
NextConcurrent ==
    \/ \E i \in Slots, json \in {"ok", "malformed"}, m \in SlotMessages,
          s \in SlotSignatures, t \in SlotTypes :
          /\ (json = "malformed" => m = Undefined /\ s = Str("not-a-signature")
                                    /\ t = Undefined)
          /\ SlotReceive(i, json, m, s, t)
    \/ \E i \in Slots : SlotBodyParser(i)
    \/ \E i \in Slots, fault \in SlotFaults : SlotHandlerStart(i, fault)
    \/ \E i \in Slots : SlotHandlerResume(i)
    \/ \E i \in Slots, now \in Timestamps : SlotErrorHandler(i, now)
    \/ \E i \in Slots : SlotFinish(i)

SpecConcurrent == Init /\ [][NextConcurrent]_vars

\* calls of the validators of signatureService
NextValidators ==
    \/ \E shape \in SignatureShapes : ValidateSignature(shape)
    \/ \E shape \in MessageShapes : ValidateMessage(shape)
    \/ ValidatorReturn

SpecValidators == Init /\ [][NextValidators]_vars

\* the instances of useSignatureHistory and their callers
NextHistory ==
    \/ \E stored \in InitialStorage : SetItemBeforeMount(stored)
    \/ \E h \in Hooks, fails \in BOOLEAN : Mount(h, fails)
    \/ \E h \in Hooks : Unmount(h)
    \/ \E h \in Hooks, m \in HistoryTexts, now \in HistoryTimes,
          random \in HistoryRandoms, fails \in BOOLEAN :
          AddMessage(h, m, now, random, fails)
    \/ \E h \in Hooks, now \in HistoryTimes, random \in HistoryRandoms \cup {"zzzzzzz"},
          fails \in BOOLEAN :
          RemoveMessage(h, MessageId(now, random), fails)
    \/ \E h \in Hooks, fails \in BOOLEAN : ClearHistory(h, fails)

SpecHistory == Init /\ [][NextHistory]_vars

\* SignPage, its wallet, its server and its user
NextSignPage ==
    \/ \E fails \in BOOLEAN : Mount(1, fails)
    \/ \E text \in PageTexts : Type(text)
    \/ ClickSign("connected")
    \/ \E outcome \in SignOutcomes : SignSettle(outcome)
    \/ \E address \in WalletAddresses : ClickVerify(address)
    \/ \E response \in VerifyResponses, now \in HistoryTimes, random \in PageRandoms :
          VerifySettle(response, now, random, FALSE)
    \/ Reset

SpecSignPage == Init /\ [][NextSignPage]_vars

\* WalletProvider, its modal, the SDK and the user
NextWallet ==
    \/ \E user \in BOOLEAN, primaryWallet \in BOOLEAN : DynamicChange(user, primaryWallet)
    \/ Connect
    \/ EmailSubmit
    \/ ResendOtp
    \/ \E call \in {"email", "resend"}, outcome \in SdkOutcomes : EmailSettle(call, outcome)
    \/ VerificationSubmit
    \/ \E outcome \in SdkOutcomes : VerificationSettle(outcome)
    \/ \E control \in {"button", "backdrop"} : CloseAuthModal(control)
    \/ Disconnect
    \/ \E outcome \in SdkOutcomes : LogOutSettle(outcome)

SpecWallet == Init /\ [][NextWallet]_vars

\* useMFA, the SDK, the MFAModal that uses the hook and the timers
NextMFA ==
    \/ \E isLogged \in BOOLEAN : LoggedChange(isLogged)
    \/ \E info \in MissingInfos : UserInfoChange(info)
    \/ OpenModal
    \/ CloseModal
    \/ CloseTimeout
    \/ AddDevice
    \/ VerifyDevice
    \/ AcknowledgeBackupCodes
    \/ SetCurrentView("otp")
    \/ DeleteDevice
    \/ \E i \in 1..MaxMfaCalls, outcome \in MfaOutcomes : MfaSettle(i, outcome)

SpecMFA == Init /\ [][NextMFA]_vars

----------------------------------------------------------------------------
(* Properties of signatureService.verifySignature (SpecService) *)

\* what ethers recovers from the arguments of the call on record
Recovered == verifyMessage(svcRequest.message, svcRequest.signature)

FailureResult(message) == [isValid |-> FALSE, signer |-> "", originalMessage |-> message]

\* C1: for every pair of strings (message, signature) verifySignature returns and
\* never throws, and whenever recovery fails the result is exactly
\* {isValid: false, signer: '', originalMessage: message}.
C1_NeverThrows ==
    /\ svcOutcome.kind # "throw"
    /\ (svcOutcome.kind = "return" /\ Recovered.kind = "throw")
          => svcOutcome.value = FailureResult(svcRequest.message)

\* a 65-byte signature of zeros has been verified and gave the failure result
C1_Witness ==
    /\ svcOutcome.kind = "return"
    /\ svcRequest.signature = Str(Serialized65(0, 0, 0))
    /\ svcOutcome.value = FailureResult(svcRequest.message)

\* C2: in every returned result isValid is true iff an address was recovered; a
\* recovery gives {true, the non-empty recovered address, message}, isValid = false
\* comes with signer = '', and originalMessage is always the input message.
C2_ValidIffRecovered ==
    svcOutcome.kind = "return" =>
        /\ svcOutcome.value.isValid <=> Recovered.kind = "return"
        /\ Recovered.kind = "return" =>
              /\ Recovered.value # ""
              /\ svcOutcome.value = [isValid |-> TRUE, signer |-> Recovered.value,
                                     originalMessage |-> svcRequest.message]
        /\ ~svcOutcome.value.isValid => svcOutcome.value.signer = ""
        /\ svcOutcome.value.originalMessage = svcRequest.message

\* a call has returned a recovered address
C2_Witness ==
    /\ svcOutcome.kind = "return"
    /\ svcOutcome.value.isValid
    /\ svcOutcome.value.signer # ""
    /\ svcRequest.message = Str("Hello, Web3!")

\* C3: round trip: verifying m with the signature wallet d made over m gives
\* isValid = true and the address of d, which is the address of no other wallet.
C3_RoundTrip ==
    \A d \in PrivateKeys, m \in ServiceMessages :
        ( /\ svcOutcome.kind = "return"
          /\ svcRequest.message = Str(m)
          /\ svcRequest.signature = Str(signMessage(d, m)) )
        => /\ svcOutcome.value.isValid
           /\ svcOutcome.value.signer = WalletAddress(d)
           /\ \A other \in PrivateKeys \ {d} :
                 svcOutcome.value.signer # WalletAddress(other)

\* the empty message, signed by wallet 2, has been verified
C3_Witness ==
    /\ svcOutcome.kind = "return"
    /\ svcRequest.message = Str("")
    /\ svcRequest.signature = Str(signMessage(2, ""))
    /\ svcOutcome.value.isValid

----------------------------------------------------------------------------
(* Properties of POST /api/verify-signature (Spec) *)

InHandler == pc \in {"handler", "awaiting", "errorHandler", "done"}

Falsy(x) == ~Truthy(x)

\* the one response sent, once there is one
Answer == res.sent[1]

\* C4: a request whose message or signature is absent, empty or otherwise falsy is
\* answered 400 with {error: 'Missing required fields', message: 'Both message
\* and signature are required'}, and the verifier is never called for it.
C4_MissingFields400 ==
    ( /\ InHandler
      /\ req.json = "ok"
      /\ Falsy(req.body.message) \/ Falsy(req.body.signature) )
    => /\ verifierCalls = <<>>
       /\ nextCalls = <<>>
       /\ pc \in {"handler", "done"}
       /\ pc = "done" =>
             res.sent = <<[status |-> 400,
                           body |-> [error |-> "Missing required fields",
                                     message |-> "Both message and signature are required"]]>>

\* a request with a message and an empty signature has been answered 400
C4_Witness ==
    /\ pc = "done"
    /\ req.body.message = Str("Original message")
    /\ req.body.signature = Str("")
    /\ Len(res.sent) = 1
    /\ Answer.status = 400

\* C5: a request whose message and signature are both truthy makes the handler
\* call the verifier exactly once with message, signature and type as received
\* and, when the verifier returns, answer 200 with the verifier's result
\* unchanged, valid or not, without calling next.
C5_ValidShapeDelegates ==
    ( /\ InHandler
      /\ req.json = "ok"
      /\ Truthy(req.body.message) /\ Truthy(req.body.signature) )
    => /\ pc = "handler" => verifierCalls = <<>>
       /\ pc # "handler" =>
             verifierCalls = <<[message |-> req.body.message,
                                signature |-> req.body.signature,
                                type |-> req.body.type]>>
       /\ pc = "awaiting" => res.sent = <<>>
       /\ (pc = "done" /\ verifierResult.kind = "return") =>
             /\ res.sent = <<[status |-> 200, body |-> verifierResult.value]>>
             /\ nextCalls = <<>>

\* a malformed but present signature has been answered 200 with isValid = false
C5_Witness ==
    /\ pc = "done"
    /\ req.body.signature = Str("not-a-signature")
    /\ req.body.type = Str("SIMPLE")
    /\ Len(res.sent) = 1
    /\ Answer.status = 200
    /\ Answer.body = FailureResult(req.body.message)

EnvelopeFields == {"error", "timestamp", "path", "method"}

C7_MalformedJson400 ==
    req.json = "malformed"
    => /\ pc \notin {"handler", "awaiting"}
       /\ verifierCalls = <<>>
       /\ pc = "done" => (Len(res.sent) = 1 /\ Answer.status = 400)

\* C8: every response is in exactly one of three tiers: 400 only for a malformed
\* request, 200 only for a verifier outcome, 500 with the generic message only
\* for an internal fault; no malformed request gets 200 or 500 and no internal
\* fault gets 400 or 200.
C8_ThreeTiers ==
    pc = "done" =>
        LET malformed == \/ req.json = "malformed"
                         \/ Falsy(req.body.message)
                         \/ Falsy(req.body.signature)
            fault == verifierResult.kind = "throw"
        IN  /\ Len(res.sent) = 1
            /\ Answer.status \in {200, 400, 500}
            /\ Answer.status = 400 => malformed
            /\ Answer.status = 200 =>
                  (verifierResult.kind = "return" /\ Answer.body = verifierResult.value)
            /\ Answer.status = 500 =>
                  (fault /\ Answer.body.error = "Internal server error")
            /\ malformed => Answer.status = 400
            /\ fault => Answer.status = 500

WithoutTimestamp(body) == [body EXCEPT !.timestamp = ""]

\* two requests in a row answered by errorHandler, for errors that differ in
\* nothing but their message
TwoErrorsDifferingInMessage ==
    /\ pc = "done"
    /\ pendingError # NoError
    /\ prevAnswer # NoAnswer
    /\ prevAnswer.error.name = pendingError.name
    /\ prevAnswer.error.status = pendingError.status

C14_LongMessageNotVerified ==
    ( /\ pc \in {"awaiting", "errorHandler", "done"}
      /\ req.json = "ok"
      /\ req.body.message.t = "string"
      /\ Len(req.body.message.v) > MaxMessageLength )
    => verifierCalls = <<>>

\* the handler was invoked for the request: the body parser passed it on
HandlerInvoked == req.json # "malformed" /\ pc \in {"awaiting", "errorHandler", "done"}

\* C27: an invocation of the handler ends in exactly one of three ways: the 400 JSON
\* answer 'Missing required fields', with the verifier not called; the 200 JSON answer
\* holding the verifier's result; one call of next with the verifier's error, the
\* handler itself having sent nothing (the one answer is then errorHandler's). While
\* the handler awaits the verifier it has sent nothing and passed nothing on.
C27_ExactlyOneOutcome ==
    HandlerInvoked =>
        CASE pc = "awaiting" ->
               res.sent = <<>> /\ nextCalls = <<>> /\ Len(verifierCalls) = 1
          [] pc = "errorHandler" ->
               /\ res.sent = <<>>
               /\ Len(verifierCalls) = 1
               /\ verifierResult.kind = "throw"
               /\ nextCalls = <<verifierResult.value>>
          [] pc = "done" ->
               /\ Len(res.sent) = 1
               /\ \/ /\ nextCalls = <<>>
                     /\ verifierCalls = <<>>
                     /\ res.sent[1] = [status |-> 400, body |-> MissingFields]
                  \/ /\ nextCalls = <<>>
                     /\ Len(verifierCalls) = 1
                     /\ verifierResult.kind = "return"
                     /\ res.sent[1] = [status |-> 200, body |-> verifierResult.value]
                  \/ /\ Len(verifierCalls) = 1
                     /\ verifierResult.kind = "throw"
                     /\ nextCalls = <<verifierResult.value>>

\* the handler has passed the verifier's error on and has sent nothing itself
C27_Witness ==
    /\ pc = "errorHandler"
    /\ HandlerInvoked
    /\ nextCalls = <<verifierResult.value>>
    /\ verifierResult.value.name = "ValidationError"
    /\ res.sent = <<>>

----------------------------------------------------------------------------
(* Properties of series of calls (SpecServiceCalls) *)

----------------------------------------------------------------------------
(* Properties of requests in flight together (SpecConcurrent) *)

\* the response a request gets when it is the only one the server handles, given
\* how its own verifier call completed
AloneResponses(slot) ==
    LET body == slot.req.body
    IN  IF slot.req.json = "malformed"
        THEN {[status |-> 500,
               body |-> [error |-> "Internal server error", timestamp |-> now,
                         path |-> slot.req.path, method |-> slot.req.method]] :
                  now \in Timestamps}
        ELSE IF Falsy(body.message) \/ Falsy(body.signature)
        THEN {[status |-> 400, body |-> MissingFields]}
        ELSE IF slot.verifierResult.kind = "throw"
        THEN {[status |-> 500,
               body |-> [error |-> "Internal server error", timestamp |-> now,
                         path |-> slot.req.path, method |-> slot.req.method]] :
                  now \in Timestamps}
        ELSE {[status |-> 200,
               body |-> verifySignature([message |-> body.message,
                                         signature |-> body.signature,
                                         type |-> body.type]).value]}

SameButType(i, j) ==
    /\ inflight[i].req.json = "ok"
    /\ inflight[j].req.json = "ok"
    /\ inflight[i].req.body.message = inflight[j].req.body.message
    /\ inflight[i].req.body.signature = inflight[j].req.body.signature

\* C13: the optional type never influences the outcome: two requests equal in
\* message and signature get the same status and the same result from
\* verifySignature whatever their type (absent, a known or an unknown tag); no
\* type makes a request of valid shape a validation error (400); the verifier is
\* called with the type of the request, unchanged.
C13_TypeIgnored ==
    \A i, j \in Slots :
        /\ ( /\ SameButType(i, j)
             /\ inflight[i].verifierResult.kind = "return"
             /\ inflight[j].verifierResult.kind = "return" )
           => inflight[i].verifierResult = inflight[j].verifierResult
        /\ ( /\ SameButType(i, j)
             /\ inflight[i].pc = "done" /\ inflight[j].pc = "done"
             /\ inflight[i].verifierResult.kind = inflight[j].verifierResult.kind )
           => /\ inflight[i].res.sent[1].status = inflight[j].res.sent[1].status
              /\ inflight[i].verifierResult.kind = "return"
                 => inflight[i].res.sent[1].body = inflight[j].res.sent[1].body
        /\ ( /\ inflight[i].pc = "done"
             /\ inflight[i].req.json = "ok"
             /\ Truthy(inflight[i].req.body.message)
             /\ Truthy(inflight[i].req.body.signature) )
           => /\ inflight[i].res.sent[1].status # 400
              /\ Len(inflight[i].verifierCalls) = 1
              /\ inflight[i].verifierCalls[1].type = inflight[i].req.body.type

\* the same signed message has been verified without a type and with the unknown
\* tag 'SIMPLE', and both requests are answered 200 with isValid true
C13_Witness ==
    \E i, j \in Slots :
        /\ SameButType(i, j)
        /\ inflight[i].req.body.type = Undefined
        /\ inflight[j].req.body.type = Str("SIMPLE")
        /\ inflight[i].pc = "done" /\ inflight[j].pc = "done"
        /\ inflight[i].res.sent[1].status = 200
        /\ inflight[j].res.sent[1].status = 200
        /\ inflight[i].res.sent[1].body.isValid
        /\ inflight[j].res.sent[1].body.isValid

----------------------------------------------------------------------------
(* Properties of the validators (SpecValidators) *)

Range(seq) == {seq[k] : k \in 1..Len(seq)}

Hexadecimal ==
    {"0", "1", "2", "3", "4", "5", "6", "7", "8", "9"}
    \cup {"a", "b", "c", "d", "e", "f"} \cup {"A", "B", "C", "D", "E", "F"}

\* C15: isValidSignatureFormat(s) is true if and only if s is '0x' followed by
\* exactly 130 hexadecimal characters, upper or lower case: false for any other
\* length, a missing or different prefix, a non-hex character, anything after the
\* 130 characters, and the empty string.
C15_SignatureFormat ==
    valFn = "isValidSignatureFormat"
    => ( valResult <=> /\ valShape.prefix = <<"0", "x">>
                       /\ Range(valShape.fill) \subseteq Hexadecimal
                       /\ Len(valShape.fill) * valShape.count = 130
                       /\ valShape.tail = <<>> )

\* '0x' and 130 characters of mixed case are accepted
C15_Witness ==
    /\ valFn = "isValidSignatureFormat"
    /\ valResult
    /\ valShape.fill = <<"a", "F">>
    /\ Len(valInput) = 132

\* C16: isValidMessage(m) is true if and only if m without its leading and
\* trailing whitespace is non-empty and the untrimmed m has at most 10,000
\* characters: false for the empty and for whitespace-only messages, true at
\* length 10,000, false at 10,001, also for 10,000 characters and one space.
C16_MessageValid ==
    valFn = "isValidMessage"
    => ( valResult <=> /\ valShape.count > 0
                       /\ Range(valShape.fill) \ {" ", "\t", "\n", "\r", "\f"} # {}
                       /\ Len(valShape.prefix) + Len(valShape.fill) * valShape.count
                              + Len(valShape.tail) <= 10000 )

\* 10,000 characters padded with one space are refused
C16_Witness ==
    /\ valFn = "isValidMessage"
    /\ ~valResult
    /\ valShape = [prefix |-> <<>>, fill |-> <<"A">>, count |-> 10000, tail |-> <<" ">>]
    /\ Len(valInput) = 10001

----------------------------------------------------------------------------
(* Properties of useSignatureHistory (SpecHistory) *)

Changes == {"add", "remove", "clear"}

\* C18: each addMessage puts the new entry at index 0 and leaves every existing
\* entry unchanged in content and in relative order, so that after any sequence
\* of addMessage calls messages holds the added entries newest first.
C18_AddPrepends ==
    [][ lastOp'.op = "add"
        => LET prev == hooks[lastOp'.hook].messages
               next == hooks'[lastOp'.hook].messages
           IN  /\ Len(next) = Len(prev) + 1
               /\ next[1].message = lastOp'.arg
               /\ \A k \in 1..Len(prev) : next[k + 1] = prev[k] ]_vars

\* an entry has been added in front of a different one
C18_Witness ==
    /\ lastOp.op = "add"
    /\ lastOp.before = 1
    /\ Len(hooks[lastOp.hook].messages) = 2
    /\ hooks[lastOp.hook].messages[1].id # hooks[lastOp.hook].messages[2].id

\* C19: removeMessage(id) removes the entries whose id is the argument and leaves
\* every other entry and the order of the list unchanged; when no entry has that
\* id, the list is unchanged.
C19_RemoveById ==
    [][ lastOp'.op = "remove"
        => LET prev == hooks[lastOp'.hook].messages
               next == hooks'[lastOp'.hook].messages
               others == {k \in 1..Len(prev) : prev[k].id # lastOp'.arg}
           IN  /\ Len(next) = Cardinality(others)
               /\ \A k \in others :
                      next[Cardinality({j \in others : j <= k})] = prev[k]
               /\ others = 1..Len(prev) => next = prev ]_vars

\* one of two entries has been removed, the other one is what is left
C19_Witness ==
    /\ lastOp.op = "remove"
    /\ lastOp.before = 2
    /\ Len(hooks[lastOp.hook].messages) = 1
    /\ hooks[lastOp.hook].messages[1].id # lastOp.arg

\* C20 as stated: once the initial load has finished, every change of messages
\* (addMessage, removeMessage, clearHistory) is written to localStorage, so that an
\* instance mounted afterwards loads the same entries in the same order;
\* clearHistory leaves the stored value '[]'.
C20_EveryChangeStored ==
    [][ /\ lastOp'.op \in Changes
           => /\ localStorage' = Str(JSONStringify(hooks'[lastOp'.hook].messages))
              /\ lastOp'.op = "clear" => localStorage' = Str("[]")
        /\ (lastOp'.op = "mount" /\ lastOp.op \in Changes /\ lastOp.hook # lastOp'.hook)
           => hooks'[lastOp'.hook].messages = hooks[lastOp.hook].messages ]_vars

\* C20, amended: every change is written unless localStorage throws; an instance
\* mounted after a change that was written, and able to read localStorage, loads
\* the same entries in the same order; a change that could not be written leaves
\* the stored value as it was.
C20_ChangeStoredUnlessStorageFails ==
    [][ /\ (lastOp'.op \in Changes /\ lastOp'.saved)
           => /\ localStorage' = Str(JSONStringify(hooks'[lastOp'.hook].messages))
              /\ lastOp'.op = "clear" => localStorage' = Str("[]")
        /\ (lastOp'.op \in Changes /\ ~lastOp'.saved)
           => localStorage' = localStorage
        /\ ( /\ lastOp'.op = "mount" /\ lastOp'.saved
             /\ lastOp.op \in Changes /\ lastOp.saved
             /\ lastOp.hook # lastOp'.hook )
           => hooks'[lastOp'.hook].messages = hooks[lastOp.hook].messages ]_vars

\* an instance mounted after another one's second addMessage holds its two entries
C20_Witness ==
    /\ lastOp.op = "mount"
    /\ lastOp.saved
    /\ \A h \in Hooks : hooks[h].mounted /\ Len(hooks[h].messages) = 2
    /\ hooks[1].messages = hooks[2].messages
    /\ localStorage = Str(JSONStringify(hooks[1].messages))

\* C21 as stated: every entry created by addMessage has an id different from the
\* id of every other entry of the history, also when entries are added in the
\* same batch or in the same millisecond.
C21_NewIdIsUnique ==
    [][ lastOp'.op = "add"
        => LET next == hooks'[lastOp'.hook].messages
           IN  \A k \in 2..Len(next) : next[k].id # next[1].id ]_vars

\* the stored value is a history: there is one and it parses
HoldsHistory(stored) ==
    /\ stored # Null
    /\ stored # Str("")
    /\ JSONParse(stored.v).kind = "return"

\* C30: no persist effect that runs while isLoading is true changes localStorage; a
\* mount ends with isLoading false, whether the stored value is absent, a history or
\* corrupted and whether localStorage works or throws; when it works and holds a
\* history, messages is that history and localStorage still holds it; in every other
\* case messages is the empty list.
C30_LoadedBeforeSaved ==
    [][ /\ ~loadingWrite'
        /\ lastOp'.op = "mount"
            => LET h == lastOp'.hook
               IN  /\ hooks'[h].mounted
                   /\ ~hooks'[h].isLoading
                   /\ IF lastOp'.saved /\ HoldsHistory(localStorage)
                      THEN /\ hooks'[h].messages = JSONParse(localStorage.v).value
                           /\ HoldsHistory(localStorage')
                           /\ JSONParse(localStorage'.v) = JSONParse(localStorage.v)
                      ELSE hooks'[h].messages = <<>> ]_vars

\* an instance has mounted on a stored history of one entry, set before any instance
\* existed: it holds the entry and so does localStorage
C30_Witness ==
    /\ lastOp.op = "mount"
    /\ lastOp.saved
    /\ \A h \in Hooks : hooks[h].mounted <=> h = lastOp.hook
    /\ Len(hooks[lastOp.hook].messages) = 1
    /\ ~hooks[lastOp.hook].isLoading
    /\ HoldsHistory(localStorage)
    /\ JSONParse(localStorage.v).value = hooks[lastOp.hook].messages

----------------------------------------------------------------------------
(* Properties of SignPage (SpecSignPage) *)

\* C17 as stated: the body {message, signature} of a verify request has message
\* equal to the trimmed text that was passed to signMessage when that signature
\* was made, for every sequence of typing, signing, editing and verifying.
C17_VerifiedMessageIsSignedMessage ==
    verifyRequest.pending
    => verifyRequest.signature = WalletSignature(verifyRequest.message)

\* a step in which handleVerifySignature resumes after its await
VerifySettles == verifyRequest.pending /\ ~verifyRequest'.pending

\* the step handles response r, and the history of SignPage gains one entry with
\* the given signer in front, or stays as it is
HandlesResponse(r) ==
    /\ (r.kind = "response" /\ r.ok)
       => page'.verificationResult = r.result /\ page'.error = page.error
    /\ (r.kind = "response" /\ ~r.ok) => page'.error = Str("Failed to verify signature")
    /\ r.kind = "rejected" => page'.error = Str("Failed to fetch")
EntryAdded(signer) ==
    /\ Len(hooks'[1].messages) = Len(hooks[1].messages) + 1
    /\ Tail(hooks'[1].messages) = hooks[1].messages
    /\ hooks'[1].messages[1].message = JoinChars(verifyRequest.message)
    /\ hooks'[1].messages[1].signature = JoinChars(verifyRequest.signature)
    /\ hooks'[1].messages[1].signer = signer
    /\ hooks'[1].messages[1].verified

C23_ResetStaysEmpty ==
    formReset
    => /\ page.message = <<>>
       /\ page.signature = <<>>
       /\ page.verificationResult = Null
       /\ page.error = Null

----------------------------------------------------------------------------
(* Properties of WalletProvider (SpecWallet) *)

\* the SDK hands over a user and a primary wallet where there was no user
LoggingIn == ~dynamic.user /\ dynamic'.user /\ dynamic'.primaryWallet

LoginCompletes ==
    /\ ~(dynamic.user /\ dynamic.primaryWallet)
    /\ dynamic'.user /\ dynamic'.primaryWallet

\* C26: authStep moves from 'email' to 'verification' only when connectWithEmail
\* resolves, from 'verification' to 'creating' only on a verification submit, from
\* 'creating' to 'verification' only when verifyOneTimePassword rejects, error set, and
\* to 'email' only when connectWithEmail rejects, error set, or on connect(), a close
\* of the modal or a completed login, which leave step 'email' and error null; the
\* step is 'verification' or 'creating' only if connectWithEmail has resolved since the
\* last of these resets.
C26_AuthStepTransitions ==
    [][ LET from == wallet.authStep
            to == wallet'.authStep
            op == walletOp'.op
        IN  /\ to = "verification" /\ from # to
                => \/ from = "email" /\ op = "emailResolved"
                   \/ from = "creating" /\ op = "otpRejected" /\ wallet'.error # Null
            /\ to = "creating" /\ from # to
                => from = "verification" /\ op = "verificationSubmit"
            /\ to = "email" /\ from # to
                => \/ op = "emailRejected" /\ wallet'.error # Null
                   \/ op \in {"connect", "close"}
                   \/ LoginCompletes
            /\ op \in {"connect", "close"} \/ LoginCompletes
                => to = "email" /\ wallet'.error = Null
            /\ to \in {"verification", "creating"} => codeSent' ]_vars

----------------------------------------------------------------------------
(* Properties of useMFA (SpecMFA) *)

\* C25: when userWithMissingInfo changes to a user who requires additional
\* authentication and the modal has not been opened automatically since the last
\* successful verifyDevice or logout (or since the start), the modal is opened on the
\* 'otp' view; every other change of userWithMissingInfo, also after the modal was
\* closed by hand, leaves the state of the hook as it is.
C25_AutomaticOpeningOnce ==
    [][ mfaSdk'.userWithMissingInfo # mfaSdk.userWithMissingInfo
        => LET info == mfaSdk'.userWithMissingInfo
           IN  IF info.present /\ info.requires /\ ~autoOpened
               THEN mfa'.isModalOpen /\ mfa'.currentView = "otp"
               ELSE mfa' = mfa ]_vars

\* the modal was opened automatically and closed by hand; the next user object that
\* requires additional authentication has arrived and the modal is still closed
C25_Witness ==
    /\ mfaOp = "userInfo"
    /\ autoOpened
    /\ ~mfa.isModalOpen
    /\ mfaSdk.userWithMissingInfo.requires
    /\ mfaSdk.userWithMissingInfo.version = 2

\* C28: after the logout effect, and until the hook is used again, devices is empty,
\* mfaRegisterData is null, backupCodes is empty, error is null and the modal is
\* closed, whatever SDK call was awaited at the logout and settles afterwards.
C28_LoggedOutIsCleared ==
    mfaCleared => /\ ~mfaSdk.isLogged
                  /\ mfa.devices = <<>>
                  /\ mfa.mfaRegisterData = Null
                  /\ mfa.backupCodes = <<>>
                  /\ mfa.error = Null
                  /\ ~mfa.isModalOpen

\* C29: a timeout of closeModal that fires while the modal is open (it was opened
\* again after that closeModal) leaves currentView as it is, and mfaRegisterData too
\* when the view is 'qr-code'.
C29_TimeoutLeavesReopenedModal ==
    [][ mfaOp' = "timeout" /\ mfa.isModalOpen
        => /\ mfa'.currentView = mfa.currentView
           /\ mfa.currentView = "qr-code"
                => mfa'.mfaRegisterData = mfa.mfaRegisterData ]_vars

====
